---------------------------- MODULE Spec2Model ----------------------------
(***************************************************************************)
(* Model of the MySQL catalog formatter of daf_fmt_mysql                   *)
(* (python/lsst/daf/fmt/mysql/afwTableSqlFormatter.py).                    *)
(*                                                                         *)
(* One ingestion (AfwTableSqlFormatter._ingest) is a sequence of           *)
(* statements sent to a MySQL server over one connection: CREATE TABLE of  *)
(* a staging table, an optional CREATE VIEW, the INSERT/REPLACE statements *)
(* built by _do_ingest, COMMIT, and the RENAME/DROP loop of _rename_table. *)
(* Each statement is one action, so that the statements of several         *)
(* ingestions (separate processes, one connection each) interleave.        *)
(*                                                                         *)
(* The storage layer (mysqlStorage.py: the formatter registry, the         *)
(* constructor, write, read and copyFile), the alias resolver              *)
(* (aliases_for) and FieldFormatter.format_value are modelled as calls     *)
(* of the same processes, each with its own initial states and            *)
(* next-state relation.                                                    *)
(*                                                                         *)
(* The repository configuration (MySqlStorage.putRepositoryCfg and         *)
(* getRepositoryCfg, with ButlerRepoCfgFmt of butlerRepoCfgFmt.py) is      *)
(* modelled the same way: the CREATE TABLE, INSERT, COMMIT and SELECT of   *)
(* a put or a get are one action each, so that two calls interleave.       *)
(*                                                                         *)
(* Text is modelled as sequences of one-character strings, so the length   *)
(* of a statement is the Len of its text.                                  *)
(***************************************************************************)
EXTENDS Integers, Sequences, FiniteSets, TLC

VARIABLES
    tables,   \* server: table name -> [cols, rows]
    views,    \* server: view name -> [from, cols]
    proc,     \* per writer process: the locals of _ingest and its callees
    log,      \* per writer: the statements it has sent, with their outcome
    faults,   \* driver/server failures that may still be injected
    formatters, \* MySqlStorage.formatters: formattable type -> formatter class
    calls,    \* the calls of MySqlStorage.registerFormatter, with their outcome
    databases \* server: the names of the databases

\* the state of the storage layer, which an ingestion leaves alone
storageVars == <<formatters, calls, databases>>

vars == <<tables, views, proc, log, faults, formatters, calls, databases>>

----------------------------------------------------------------------------
(* Bounds of the model *)

\* most rows in a catalog of the batch scenario
MaxRows == 3
\* the batch scenario tries max_query_len from the prefix length up to
\* the prefix length plus MaxSlack
MaxSlack == 11
\* most injected driver failures in one behaviour
MaxFaults == 1
\* the server's max_allowed_packet session variable
ServerMaxPacket == 40

----------------------------------------------------------------------------
(* Text helpers *)

None == <<>>

Digits == <<"0","1","2","3","4","5","6","7","8","9">>

\* Python str() of an integer
RECURSIVE str(_)
str(n) ==
    IF n < 0 THEN <<"-">> \o str(-n)
    ELSE IF n < 10 THEN <<Digits[n + 1]>>
    ELSE str(n \div 10) \o <<Digits[(n % 10) + 1]>>

\* Python sep.join(parts)
RECURSIVE join(_, _)
join(sep, parts) ==
    IF Len(parts) = 0 THEN <<>>
    ELSE IF Len(parts) = 1 THEN parts[1]
    ELSE parts[1] \o sep \o join(sep, Tail(parts))

\* Python s.startswith(prefix)
startswith(s, prefix) ==
    /\ Len(prefix) <= Len(s)
    /\ SubSeq(s, 1, Len(prefix)) = prefix

\* Python c in s
contains(s, c) == \E k \in 1..Len(s) : s[k] = c

\* the characters matched by \w among those the model uses
WordChars == {"a", "b", "c", "d", "t", "v", "x", "y", "A", "B", "_",
              "0", "1", "2", "3", "4", "5", "6", "7", "8", "9"}

\* Python str.lower on the model's alphabet
lowerChar(c) == CASE c = "A" -> "a" [] c = "B" -> "b" [] OTHER -> c

lower(s) == [k \in 1..Len(s) |-> lowerChar(s[k])]

canonicalize_field_name(field_name) ==
    [k \in 1..Len(field_name) |->
        IF field_name[k] \in WordChars THEN field_name[k] ELSE "_"]

\* the back-tick character (written out: the lexer takes no back-tick)
BackTick == "backtick"

RECURSIVE doubleBackticks(_)
doubleBackticks(s) ==
    IF Len(s) = 0 THEN <<>>
    ELSE (IF s[1] = BackTick THEN <<BackTick, BackTick>> ELSE <<s[1]>>)
         \o doubleBackticks(Tail(s))

quote_mysql_identifier(identifier) ==
    <<BackTick>> \o doubleBackticks(identifier) \o <<BackTick>>

----------------------------------------------------------------------------
(* Values and the formatter table *)

\* a field value: None, an integer or a flag
NoValue == [kind |-> "None", v |-> 0]
IntValue(n) == [kind |-> "int", v |-> n]
FlagValue(b) == [kind |-> "flag", v |-> IF b THEN 1 ELSE 0]

\* the keys of field_formatters
FormatterKeys == {"U", "I", "L", "F", "D", "Flag", "Angle", "String",
                  "ArrayU", "ArrayI", "ArrayF", "ArrayD"}

\* the format_value_callable of the entries the model's catalogs use
format_value_callable(type, value) ==
    CASE type \in {"U", "I", "L"} -> str(value.v)
      [] type = "Flag" -> IF value.v # 0 THEN <<"1">> ELSE <<"0">>
      [] OTHER -> str(value.v)

\* a test that takes no value for None
is_None_never(value) == FALSE

\* value is None
is_None(value) == value = NoValue

format_value(type, value) ==
    IF is_None(value) THEN <<"N","U","L","L">>
    ELSE format_value_callable(type, value)

----------------------------------------------------------------------------
(* Configuration (IngestCatalogConfig) *)

max_column_len == 64

\* config.remap: empty by default
remap == [n \in {} |-> <<>>]

_column_name(field_name) ==
    IF field_name \in DOMAIN remap THEN remap[field_name]
    ELSE canonicalize_field_name(field_name)

\* a walk of the schema that skips no field for its type
RECURSIVE _schema_items_all(_, _)
_schema_items_all(schema, k) ==
    IF k > Len(schema) THEN <<>>
    ELSE IF Len(_column_name(schema[k].name)) > max_column_len
         THEN _schema_items_all(schema, k + 1)
    ELSE <<k>> \o _schema_items_all(schema, k + 1)

\* the positions of the ingestible fields of a schema, in schema order
RECURSIVE _schema_items(_, _)
_schema_items(schema, k) ==
    IF k > Len(schema) THEN <<>>
    ELSE IF schema[k].type \notin FormatterKeys THEN _schema_items(schema, k + 1)
    ELSE IF Len(_column_name(schema[k].name)) > max_column_len
         THEN _schema_items(schema, k + 1)
    ELSE <<k>> \o _schema_items(schema, k + 1)


----------------------------------------------------------------------------
(* The batch ingestion engine: the statement text of _do_ingest *)

\* the table name _ingest hands to _do_ingest
\* ingesting into the destination name itself
_do_ingest_table_final(p) == p.table_name

_do_ingest_table(p) == p.temp

column_names(schema) ==
    LET items == _schema_items(schema, 1)
    IN  [k \in 1..Len(items) |-> _column_name(schema[items[k]].name)]

sql_prefix(allow_replace, table_name, schema) ==
    (IF allow_replace THEN <<"R","E","P","L","A","C","E">>
                      ELSE <<"I","N","S","E","R","T">>)
    \o <<" ","I","N","T","O"," ">> \o table_name \o <<" ","(">>
    \o join(<<",">>, column_names(schema))
    \o <<")"," ","V","A","L","U","E","S"," ">>

\* the text of one row: "(" + ",".join(...) + "),"
row_value(schema, row) ==
    LET items == _schema_items(schema, 1)
    IN  <<"(">>
        \o join(<<",">>, [k \in 1..Len(items) |->
                            format_value(schema[items[k]].type, row[items[k]])])
        \o <<")", ",">>

\* a budget that forgets the prefix
initial_max_value_len_whole(max_query_len, sql) == max_query_len

\* the budget of a statement for its rows
initial_max_value_len(max_query_len, sql) == max_query_len - Len(sql)

\* an inner loop that appends the row before it tests the budget
RECURSIVE pack_rows_late_test(_, _, _, _)
pack_rows_late_test(cat, pos, max_value_len, sql) ==
    IF pos >= Len(cat.rows) THEN [pos |-> pos, sql |-> sql]
    ELSE LET value == row_value(cat.schema, cat.rows[pos + 1])
             left == max_value_len - Len(value)
         IN  IF left < 0 THEN [pos |-> pos, sql |-> sql \o value]
             ELSE pack_rows_late_test(cat, pos + 1, left, sql \o value)

\* an inner loop that stops when the budget is used up exactly
RECURSIVE pack_rows_strict(_, _, _, _)
pack_rows_strict(cat, pos, max_value_len, sql) ==
    IF pos >= Len(cat.rows) THEN [pos |-> pos, sql |-> sql]
    ELSE LET value == row_value(cat.schema, cat.rows[pos + 1])
             left == max_value_len - Len(value)
         IN  IF left <= 0 THEN [pos |-> pos, sql |-> sql]
             ELSE pack_rows_strict(cat, pos + 1, left, sql \o value)

\* an inner loop that always takes the first row of a statement
RECURSIVE pack_rows_one_at_least(_, _, _, _)
pack_rows_one_at_least(cat, pos, max_value_len, sql) ==
    IF pos >= Len(cat.rows) THEN [pos |-> pos, sql |-> sql]
    ELSE LET value == row_value(cat.schema, cat.rows[pos + 1])
             left == max_value_len - Len(value)
         IN  IF left < 0 /\ sql[Len(sql)] = "," THEN [pos |-> pos, sql |-> sql]
             ELSE pack_rows_one_at_least(cat, pos + 1, left, sql \o value)

\* the inner loop: rows are appended while the budget lasts.  pos counts the
\* rows consumed so far (row pos is rows[pos + 1]).
RECURSIVE pack_rows(_, _, _, _)
pack_rows(cat, pos, max_value_len, sql) ==
    IF pos >= Len(cat.rows) THEN [pos |-> pos, sql |-> sql]
    ELSE LET value == row_value(cat.schema, cat.rows[pos + 1])
             left == max_value_len - Len(value)
         IN  IF left < 0 THEN [pos |-> pos, sql |-> sql]
             ELSE pack_rows(cat, pos + 1, left, sql \o value)

\* one iteration of the outer loop, up to the statement it would execute
\* (sql[:-1]); pos = initial_pos means no progress
build_statement(cat, pos, prefix, max_query_len) ==
    LET r == pack_rows(cat, pos, initial_max_value_len(max_query_len, prefix),
                       prefix)
    IN  [pos |-> r.pos,
         sql |-> IF Len(r.sql) = 0 THEN <<>>
                 ELSE SubSeq(r.sql, 1, Len(r.sql) - 1)]

----------------------------------------------------------------------------
(* The MySQL server, as far as the statements of the formatter use it *)

\* un-double the back-ticks of a quoted identifier's inside
RECURSIVE undouble(_)
undouble(s) ==
    IF Len(s) = 0 THEN <<>>
    ELSE IF Len(s) >= 2 /\ s[1] = BackTick /\ s[2] = BackTick
         THEN <<BackTick>> \o undouble(SubSeq(s, 3, Len(s)))
    ELSE <<s[1]>> \o undouble(Tail(s))

\* the table an identifier names: a quoted identifier names its inside
Resolve(name) ==
    IF Len(name) >= 2 /\ name[1] = BackTick /\ name[Len(name)] = BackTick
    THEN undouble(SubSeq(name, 2, Len(name) - 1))
    ELSE name

\* where the row tuples of an INSERT/REPLACE statement start
ValuesStart(sql) ==
    LET kw == <<")"," ","V","A","L","U","E","S"," ">>
        at == {k \in 1..Len(sql) :
                 k + Len(kw) - 1 <= Len(sql) /\ SubSeq(sql, k, k + Len(kw) - 1) = kw}
    IN  IF at = {} THEN Len(sql) + 1
        ELSE (CHOOSE k \in at : \A j \in at : k <= j) + Len(kw)

\* the row tuples of a VALUES list: split at the commas outside parentheses
RECURSIVE SplitTuples(_, _, _, _)
SplitTuples(rest, cur, depth, out) ==
    IF Len(rest) = 0 THEN (IF Len(cur) = 0 THEN out ELSE Append(out, cur))
    ELSE LET c == rest[1]
         IN  IF c = "," /\ depth = 0
             THEN SplitTuples(Tail(rest), <<>>, depth, Append(out, cur))
             ELSE SplitTuples(Tail(rest), Append(cur, c),
                              (IF c = "(" THEN depth + 1
                               ELSE IF c = ")" THEN depth - 1 ELSE depth),
                              out)

StatementTuples(sql) ==
    SplitTuples(SubSeq(sql, ValuesStart(sql), Len(sql)), <<>>, 0, <<>>)

\* column names are compared without regard to case
DuplicateColumns(cols) ==
    \E i, j \in 1..Len(cols) : i # j /\ lower(cols[i]) = lower(cols[j])

\* the error codes the server answers with
MYSQL_ER_TABLE_EXISTS_ERROR == "1050"
ER_BAD_TABLE_ERROR == "1051"
ER_DUP_FIELDNAME == "1060"
ER_TABLE_MUST_HAVE_COLUMNS == "1113"
ER_NO_SUCH_TABLE == "1146"

\* an injected failure: another OperationalError, or an error of another class
FaultKinds == {"OperationalError", "InternalError"}

Entry(kind, tbl, arg, sql, err) ==
    [kind |-> kind, tbl |-> tbl, arg |-> arg, sql |-> sql, err |-> err]


----------------------------------------------------------------------------
(* The writer processes: _ingest and its callees *)

Writers == {1, 2}

\* the names tempfile._get_candidate_names() may yield
CandidateNames == {<<"t","1">>, <<"t","2">>}

\* one more pass of the rename loop
num_tries_more == 3 + 1

num_tries == 3

\* an order of calls that renames the staging table before it is populated
_ingest_next_rename_first(step, view_name) ==
    CASE step = "create" -> (IF view_name # None THEN "view" ELSE "rename")
      [] step = "view" -> "rename"
      [] step = "rename" -> "ingest"
      [] step = "ingest" -> "done"

\* the order of the calls of _ingest: the step that follows `step`
_ingest_next(step, view_name) ==
    CASE step = "create" -> (IF view_name # None THEN "view" ELSE "ingest")
      [] step = "view" -> "ingest"
      [] step = "ingest" -> "rename"
      [] step = "rename" -> "done"

\* an exception that leaves the connection as it is
Raise_leak(p, e) == [p EXCEPT !.pc = "raised", !.exc = e]

\* leaving _ingest closes the connection (with closing(...))
Raise(p, e) == [p EXCEPT !.pc = "raised", !.exc = e, !.conn = "closed"]

Return(p) == [p EXCEPT !.pc = "done", !.conn = "closed"]

Advance(p, step) ==
    LET n == _ingest_next(step, p.view_name)
    IN  IF n = "done" THEN Return(p) ELSE [p EXCEPT !.pc = n]

\* the statement fails in the driver or the server for a reason of its own
Fault(w, kind, tbl, arg, sql) ==
    /\ faults > 0
    /\ \E k \in FaultKinds :
         /\ log' = [log EXCEPT ![w] = Append(@, Entry(kind, tbl, arg, sql, k))]
         /\ proc' = [proc EXCEPT ![w] = Raise(@, k)]
    /\ faults' = faults - 1
    /\ UNCHANGED <<storageVars, tables, views>>

\* _ingest up to the choice of max_query_len
Connect(w) ==
    LET p == proc[w]
        q == [p EXCEPT
                !.table_name = quote_mysql_identifier(p.job.table_name),
                !.view_name = IF p.job.view_name # <<>>
                              THEN quote_mysql_identifier(p.job.view_name)
                              ELSE None,
                !.conn = "open"]
    IN  /\ p.pc = "start"
        /\ proc' = [proc EXCEPT ![w] =
                      IF p.job.max_query_len = None
                      THEN [q EXCEPT !.pc = "maxlen"]
                      ELSE [q EXCEPT !.pc = "create",
                                     !.max_query_len = p.job.max_query_len[1]]]
        /\ UNCHANGED <<storageVars, tables, views, log, faults>>

\* SELECT variable_value ... WHERE variable_name = 'max_allowed_packet'
QueryMaxLen(w) ==
    LET p == proc[w]
    IN  /\ p.pc = "maxlen"
        /\ \/ /\ log' = [log EXCEPT ![w] =
                           Append(@, Entry("SELECT", <<>>, <<>>, <<>>, ""))]
              /\ proc' = [proc EXCEPT ![w] =
                            [p EXCEPT !.pc = "create",
                                      !.max_query_len = ServerMaxPacket]]
              /\ UNCHANGED <<storageVars, tables, views, faults>>
           \/ Fault(w, "SELECT", <<>>, <<>>, <<>>)

\* the names that clash in _create_table
Clashes(names) ==
    \E i, j \in 1..Len(names) : i # j /\ lower(names[i]) = lower(names[j])

_create_table(w) ==
    LET p == proc[w]
        schema == p.job.cat.schema
        items == _schema_items(schema, 1)
        names == [k \in 1..Len(items) |-> schema[items[k]].name]
        cols == [k \in 1..Len(items) |-> _column_name(names[k])]
    IN  /\ p.pc = "create"
        /\ IF Clashes(names)
           THEN /\ proc' = [proc EXCEPT ![w] = Raise(p, "RuntimeError: clash")]
                /\ UNCHANGED <<storageVars, tables, views, log, faults>>
           ELSE \E tableName \in CandidateNames :
                  LET err == IF Resolve(tableName) \in DOMAIN tables
                                 THEN MYSQL_ER_TABLE_EXISTS_ERROR
                             ELSE IF Len(cols) = 0
                                 THEN ER_TABLE_MUST_HAVE_COLUMNS
                             ELSE IF DuplicateColumns(cols)
                                 THEN ER_DUP_FIELDNAME
                             ELSE ""
                      e == Entry("CREATE TABLE", tableName, cols, <<>>, err)
                  IN  \/ /\ log' = [log EXCEPT ![w] = Append(@, e)]
                         /\ IF err # ""
                            THEN /\ proc' = [proc EXCEPT ![w] = Raise(p, err)]
                                 /\ UNCHANGED tables
                            ELSE /\ tables' = tables @@
                                      (Resolve(tableName) :>
                                         [cols |-> cols, rows |-> <<>>])
                                 /\ proc' = [proc EXCEPT ![w] =
                                      Advance([p EXCEPT !.temp = tableName],
                                              "create")]
                         /\ UNCHANGED <<storageVars, views, faults>>
                      \/ Fault(w, "CREATE TABLE", tableName, <<>>, <<>>)

\* SHOW COLUMNS FROM the table, then CREATE OR REPLACE ... VIEW over it
_create_view(w) ==
    LET p == proc[w]
        table_name == p.temp
        from == Resolve(table_name)
        err == IF from \in DOMAIN tables THEN "" ELSE ER_NO_SUCH_TABLE
        e == Entry("CREATE VIEW", p.view_name, table_name, <<>>, err)
    IN  /\ p.pc = "view"
        /\ \/ /\ log' = [log EXCEPT ![w] = Append(@, e)]
              /\ IF err # ""
                 THEN /\ proc' = [proc EXCEPT ![w] = Raise(p, err)]
                      /\ UNCHANGED views
                 ELSE /\ views' = [n \in DOMAIN views \cup {Resolve(p.view_name)} |->
                                     IF n = Resolve(p.view_name)
                                     THEN [from |-> from, cols |-> tables[from].cols]
                                     ELSE views[n]]
                      /\ proc' = [proc EXCEPT ![w] = Advance(p, "view")]
              /\ UNCHANGED <<storageVars, tables, faults>>
           \/ Fault(w, "CREATE VIEW", p.view_name, table_name, <<>>)

\* a test that finds progress in every pass
no_progress_never(pos, initial_pos) == FALSE

\* pos == initial_pos: the inner loop took no row
no_progress(pos, initial_pos) == pos = initial_pos

\* one iteration of the outer loop of _do_ingest
_do_ingest(w) ==
    LET p == proc[w]
        cat == p.job.cat
        table_name == _do_ingest_table(p)
        prefix == sql_prefix(p.job.allow_replace, table_name, cat.schema)
        st == build_statement(cat, p.pos, prefix, p.max_query_len)
        target == Resolve(table_name)
        err == IF target \in DOMAIN tables THEN "" ELSE ER_NO_SUCH_TABLE
        stored == StatementTuples(st.sql)
    IN  /\ p.pc = "ingest"
        /\ p.pos < Len(cat.rows)
        /\ IF no_progress(st.pos, p.pos)
           THEN /\ proc' = [proc EXCEPT ![w] =
                              Raise(p, "RuntimeError: Single row is too large to insert")]
                /\ UNCHANGED <<storageVars, tables, views, log, faults>>
           ELSE \/ /\ log' = [log EXCEPT ![w] =
                                Append(@, Entry("INSERT", table_name, <<>>, st.sql, err))]
                   /\ IF err # ""
                      THEN /\ proc' = [proc EXCEPT ![w] = Raise(p, err)]
                           /\ UNCHANGED tables
                      ELSE /\ tables' = [tables EXCEPT ![target].rows =
                                           @ \o [k \in 1..Len(stored) |->
                                                   [src |-> w, text |-> stored[k]]]]
                           /\ proc' = [proc EXCEPT ![w].pos = st.pos]
                   /\ UNCHANGED <<storageVars, views, faults>>
                \/ Fault(w, "INSERT", table_name, <<>>, st.sql)

\* a commit after every statement, and once more at the end
_do_ingest_commit_each(w) ==
    LET p == proc[w]
    IN  /\ p.pc = "ingest"
        /\ p.pos > 0
        /\ log[w][Len(log[w])].kind # "COMMIT"
        /\ log' = [log EXCEPT ![w] =
                     Append(@, Entry("COMMIT", <<>>, <<>>, <<>>, ""))]
        /\ proc' = [proc EXCEPT ![w] =
                      IF p.pos >= Len(p.job.cat.rows)
                      THEN Advance(p, "ingest") ELSE p]
        /\ UNCHANGED <<storageVars, tables, views, faults>>

\* conn.commit() once the outer loop has ended
_do_ingest_commit(w) ==
    LET p == proc[w]
    IN  /\ p.pc = "ingest"
        /\ p.pos >= Len(p.job.cat.rows)
        /\ \/ /\ log' = [log EXCEPT ![w] =
                           Append(@, Entry("COMMIT", <<>>, <<>>, <<>>, ""))]
              /\ proc' = [proc EXCEPT ![w] = Advance(p, "ingest")]
              /\ UNCHANGED <<storageVars, tables, views, faults>>
           \/ Fault(w, "COMMIT", <<>>, <<>>, <<>>)

_testSqlIsClean(sql) == ~contains(sql, ";")

\* the end of one pass of the loop of _rename_table that did not return:
\* the next pass, or after num_tries passes the warning and a normal return
NextTry(p) ==
    IF p.i + 1 < num_tries
    THEN [p EXCEPT !.i = p.i + 1, !.pc = "rename"]
    ELSE Advance([p EXCEPT !.i = p.i + 1, !.warned = TRUE], "rename")

\* one RENAME TABLE attempt of _rename_table
_rename_table(w) ==
    LET p == proc[w]
        from_name == p.temp
        to_name == p.table_name
        from == Resolve(from_name)
        to == Resolve(to_name)
        err == IF to \in DOMAIN tables THEN MYSQL_ER_TABLE_EXISTS_ERROR
               ELSE IF from \notin DOMAIN tables THEN ER_NO_SUCH_TABLE
               ELSE ""
    IN  /\ p.pc = "rename"
        /\ IF p.i = 0 /\ ~(_testSqlIsClean(from_name) /\ _testSqlIsClean(to_name))
           THEN /\ proc' = [proc EXCEPT ![w] = Raise(p, "RuntimeError: Illegal SQL.")]
                /\ UNCHANGED <<storageVars, tables, views, log, faults>>
           ELSE \/ /\ log' = [log EXCEPT ![w] =
                                Append(@, Entry("RENAME", from_name, to_name, <<>>, err))]
                   /\ CASE err = "" ->
                             /\ tables' = [n \in (DOMAIN tables \ {from}) \cup {to} |->
                                             IF n = to THEN tables[from] ELSE tables[n]]
                             /\ proc' = [proc EXCEPT ![w] = Advance(p, "rename")]
                        [] err = MYSQL_ER_TABLE_EXISTS_ERROR ->
                             /\ proc' = [proc EXCEPT ![w].pc = "drop"]
                             /\ UNCHANGED tables
                        [] OTHER ->
                             /\ proc' = [proc EXCEPT ![w] = Raise(p, err)]
                             /\ UNCHANGED tables
                   /\ UNCHANGED <<storageVars, views, faults>>
                \/ /\ faults > 0
                   /\ \E k \in FaultKinds :
                        /\ log' = [log EXCEPT ![w] =
                                     Append(@, Entry("RENAME", from_name, to_name, <<>>, k))]
                        /\ proc' = [proc EXCEPT ![w] =
                                      IF k = "OperationalError" THEN NextTry(p)
                                      ELSE Raise(p, k)]
                   /\ faults' = faults - 1
                   /\ UNCHANGED <<storageVars, tables, views>>

\* DROP TABLE of the destination name, in the handler of error 1050
_rename_table_drop(w) ==
    LET p == proc[w]
        to_name == p.table_name
        to == Resolve(to_name)
        err == IF to \in DOMAIN tables THEN "" ELSE ER_BAD_TABLE_ERROR
    IN  /\ p.pc = "drop"
        /\ \/ /\ log' = [log EXCEPT ![w] =
                           Append(@, Entry("DROP", to_name, <<>>, <<>>, err))]
              /\ IF err # ""
                 THEN /\ proc' = [proc EXCEPT ![w] = Raise(p, err)]
                      /\ UNCHANGED tables
                 ELSE /\ tables' = [n \in DOMAIN tables \ {to} |-> tables[n]]
                      /\ proc' = [proc EXCEPT ![w] = NextTry(p)]
              /\ UNCHANGED <<storageVars, views, faults>>
           \/ Fault(w, "DROP", to_name, <<>>, <<>>)

Next ==
    \E w \in Writers :
        \/ Connect(w)
        \/ QueryMaxLen(w)
        \/ _create_table(w)
        \/ _create_view(w)
        \/ _do_ingest(w)
        \/ _do_ingest_commit(w)
        \/ _rename_table(w)
        \/ _rename_table_drop(w)


----------------------------------------------------------------------------
(* The storage layer: MySqlStorage (mysqlStorage.py) *)

\* the formattable types and the formatter classes
Formattables == {"BaseCatalog", "RepositoryCfg", "TestClass"}

FormatterClasses == {"AfwTableSqlFormatter", "ButlerRepoCfgFmt"}

Call(formattable, formatter, raised) ==
    [formattable |-> formattable, formatter |-> formatter, raised |-> raised]

\* Python d[key] = value on a dict
setitem(d, key, value) ==
    [t \in DOMAIN d \cup {key} |-> IF t = key THEN value ELSE d[t]]

\* a test that finds no type registered
registered_never(registry, formattable) == FALSE

\* formattable in MySqlStorage.formatters
registered(registry, formattable) == formattable \in DOMAIN registry

\* most calls of registerFormatter in one behaviour
MaxCalls == 3

\* MySqlStorage.registerFormatter(formattable, formatter), called by any
\* module at any time
registerFormatter(formattable, formatter) ==
    /\ Len(calls) < MaxCalls
    /\ IF registered(formatters, formattable)
       THEN /\ calls' = Append(calls, Call(formattable, formatter, TRUE))
            /\ UNCHANGED formatters
       ELSE /\ calls' = Append(calls, Call(formattable, formatter, FALSE))
            /\ formatters' = setitem(formatters, formattable, formatter)
    /\ UNCHANGED <<tables, views, proc, log, faults, databases>>

\* the registrations made when the package is imported (__init__.py imports
\* butlerRepoCfgFmt before afwTableSqlFormatter)
ImportCalls ==
    <<Call("RepositoryCfg", "ButlerRepoCfgFmt", FALSE),
      Call("BaseCatalog", "AfwTableSqlFormatter", FALSE)>>

Imported ==
    [t \in {"RepositoryCfg", "BaseCatalog"} |->
        IF t = "RepositoryCfg" THEN "ButlerRepoCfgFmt" ELSE "AfwTableSqlFormatter"]

\* a lookup that falls back on the catalog formatter
_getFormatter_default(objType) ==
    IF objType \in DOMAIN formatters THEN <<formatters[objType]>>
    ELSE <<"AfwTableSqlFormatter">>

\* self.formatters.get(objType, None): None or the formatter class
_getFormatter(objType) ==
    IF objType \in DOMAIN formatters THEN <<formatters[objType]>> ELSE None

\* Python s.split(c)
RECURSIVE splitFrom(_, _, _, _)
splitFrom(rest, c, cur, out) ==
    IF Len(rest) = 0 THEN Append(out, cur)
    ELSE IF rest[1] = c THEN splitFrom(Tail(rest), c, <<>>, Append(out, cur))
    ELSE splitFrom(Tail(rest), c, Append(cur, rest[1]), out)

split(s, c) == splitFrom(s, c, <<>>, <<>>)

\* Python s.strip(c)
RECURSIVE strip(_, _)
strip(s, c) ==
    IF Len(s) = 0 THEN s
    ELSE IF s[1] = c THEN strip(Tail(s), c)
    ELSE IF s[Len(s)] = c THEN strip(SubSeq(s, 1, Len(s) - 1), c)
    ELSE s

\* int(s) raises ValueError unless s is a number
IsInt(s) == Len(s) > 0 /\ \A k \in 1..Len(s) : \E d \in 1..10 : Digits[d] = s[k]

RECURSIVE int(_)
int(s) ==
    IF Len(s) = 0 THEN 0
    ELSE 10 * int(SubSeq(s, 1, Len(s) - 1))
         + ((CHOOSE d \in 1..10 : Digits[d] = s[Len(s)]) - 1)

\* a process that has no storage object, arguments or locals
NoStorage == [mysql |-> "none", host |-> <<>>, port |-> 0, repoDbName |-> <<>>]

NoArgs == [uri |-> [netloc |-> <<>>, path |-> <<>>], create |-> FALSE,
           pythonType |-> "", locationList |-> <<>>, toLocation |-> <<>>]

NoLocals == [formatter |-> None]

\* the database of the repository the model's tables are in
RepoDb == <<"r">>

\* an exception raised where the call holds no connection of its own
RaiseOutside(p, e) == [p EXCEPT !.pc = "raised", !.exc = e]

\* a check that lets every text pass
MySqlStorage_testSqlIsClean_lax(sql) == TRUE

\* MySqlStorage._testSqlIsClean
MySqlStorage_testSqlIsClean(sql) == ~contains(sql, ";")

\* a statement of the storage object fails in the driver or the server
StorageFault(w, kind, tbl, arg) ==
    /\ faults > 0
    /\ \E k \in FaultKinds :
         /\ log' = [log EXCEPT ![w] = Append(@, Entry(kind, tbl, arg, <<>>, k))]
         /\ proc' = [proc EXCEPT ![w] =
                       [RaiseOutside(@, k) EXCEPT
                           !.conn = IF @ = "open" THEN "closed" ELSE @]]
    /\ faults' = faults - 1
    /\ UNCHANGED <<storageVars, tables, views>>

\* MySqlStorage.__init__(uri, create) up to _createDb or _repoDbExists;
\* the uri is given as urlparse splits it
__init__(w) ==
    LET p == proc[w]
        parts == split(p.args.uri.netloc, ":")
        q == [p EXCEPT !.self = [mysql |-> "open",
                                 host |-> parts[1],
                                 port |-> int(parts[2]),
                                 repoDbName |-> strip(p.args.uri.path, "/")]]
    IN  /\ p.pc = "init"
        /\ proc' = [proc EXCEPT ![w] =
                      IF Len(parts) # 2 \/ ~IsInt(parts[2])
                      THEN RaiseOutside([p EXCEPT !.self.mysql = "open"],
                                        "RuntimeError: Could not interpret")
                      ELSE [q EXCEPT !.pc = IF p.args.create THEN "createDb"
                                            ELSE "repoDbExists"]]
        /\ UNCHANGED <<storageVars, tables, views, log, faults>>

_createDb(w) ==
    LET p == proc[w]
        name == p.self.repoDbName
    IN  /\ p.pc = "createDb"
        /\ IF ~MySqlStorage_testSqlIsClean(name)
           THEN /\ proc' = [proc EXCEPT ![w] =
                              RaiseOutside(p, "RuntimeError: Illegal SQL.")]
                /\ UNCHANGED <<storageVars, tables, views, log, faults>>
           ELSE \/ /\ log' = [log EXCEPT ![w] =
                                Append(@, Entry("CREATE DATABASE", name, <<>>, <<>>, ""))]
                   /\ databases' = databases \cup {name}
                   /\ proc' = [proc EXCEPT ![w].pc = "ready"]
                   /\ UNCHANGED <<formatters, calls, tables, views, faults>>
                \/ StorageFault(w, "CREATE DATABASE", name, <<>>)

\* SELECT SCHEMA_NAME FROM INFORMATION_SCHEMA.SCHEMATA, with the name bound
\* as a parameter
_repoDbExists(w) ==
    LET p == proc[w]
        name == p.self.repoDbName
    IN  /\ p.pc = "repoDbExists"
        /\ \/ /\ log' = [log EXCEPT ![w] =
                           Append(@, Entry("SELECT SCHEMA_NAME", <<>>, name, <<>>, ""))]
              /\ proc' = [proc EXCEPT ![w] =
                            IF name \in databases THEN [p EXCEPT !.pc = "ready"]
                            ELSE RaiseOutside(p, "NoRepositoryAtRoot")]
              /\ UNCHANGED <<storageVars, tables, views, faults>>
           \/ StorageFault(w, "SELECT SCHEMA_NAME", <<>>, name)

\* MySqlStorage.write(butlerLocation, obj) up to formatter.write(...)
write(w) ==
    LET p == proc[w]
        formatter == _getFormatter(p.args.pythonType)
    IN  /\ p.pc = "ready"
        /\ p.op = "write"
        /\ proc' = [proc EXCEPT ![w] =
                      IF formatter = None
                      THEN RaiseOutside(p, "RuntimeError: No formatter registered")
                      ELSE [p EXCEPT !.locals.formatter = formatter,
                                     !.job.table_name = p.args.locationList[1],
                                     !.job.view_name = <<>>,
                                     !.pc = "start"]]
        /\ UNCHANGED <<storageVars, tables, views, log, faults>>

\* MySqlStorage.read(butlerLocation) up to formatter.read(...)
read(w) ==
    LET p == proc[w]
        formatter == _getFormatter(p.args.pythonType)
    IN  /\ p.pc = "ready"
        /\ p.op = "read"
        /\ proc' = [proc EXCEPT ![w] =
                      IF formatter = None
                      THEN RaiseOutside(p, "RuntimeError: No formatter registered")
                      ELSE [p EXCEPT !.locals.formatter = formatter,
                                     !.job.table_name = p.args.locationList[1],
                                     !.job.view_name = <<>>,
                                     !.pc = "egest"]]
        /\ UNCHANGED <<storageVars, tables, views, log, faults>>

\* AfwTableSqlFormatter._egest up to the SELECT
_egest(w) ==
    LET p == proc[w]
    IN  /\ p.pc = "egest"
        /\ proc' = [proc EXCEPT ![w] =
                      [p EXCEPT
                         !.table_name = quote_mysql_identifier(p.job.table_name),
                         !.view_name = IF p.job.view_name # <<>>
                                       THEN quote_mysql_identifier(p.job.view_name)
                                       ELSE None,
                         !.conn = "open",
                         !.pc = "select"]]
        /\ UNCHANGED <<storageVars, tables, views, log, faults>>

\* SELECT * FROM the table and the catalog built from its rows (the tables
\* of the model have numeric columns only, which _egest_getType accepts)
_egest_select(w) ==
    LET p == proc[w]
        from == Resolve(p.table_name)
        err == IF from \in DOMAIN tables THEN "" ELSE ER_NO_SUCH_TABLE
    IN  /\ p.pc = "select"
        /\ \/ /\ log' = [log EXCEPT ![w] =
                           Append(@, Entry("SELECT *", p.table_name, <<>>, <<>>, err))]
              /\ proc' = [proc EXCEPT ![w] =
                            IF err # "" THEN Raise(p, err)
                            ELSE Return([p EXCEPT !.result =
                                    [k \in 1..Len(tables[from].rows) |->
                                        tables[from].rows[k].text]])]
              /\ UNCHANGED <<storageVars, tables, views, faults>>
           \/ Fault(w, "SELECT *", p.table_name, <<>>, <<>>)

\* MySqlStorage.identifierQuote raises on a back-tick
identifierQuoteRaises(field) == contains(field, BackTick)

identifierQuote(field) == <<BackTick>> \o field \o <<BackTick>>

\* MySqlStorage.copyFile(fromLocation, toLocation): one connection, one
\* CREATE TABLE IF NOT EXISTS ... AS SELECT * FROM ...
copyFile(w) ==
    LET p == proc[w]
        fromLocation == p.args.locationList[1]
        toLocation == p.args.toLocation
        to_name == identifierQuote(toLocation)
        from_name == identifierQuote(fromLocation)
        from == Resolve(from_name)
        to == Resolve(to_name)
        err == IF from \notin DOMAIN tables THEN ER_NO_SUCH_TABLE ELSE ""
        closed == [p EXCEPT !.conn = "closed"]
    IN  /\ p.pc = "ready"
        /\ p.op = "copyFile"
        /\ IF identifierQuoteRaises(toLocation) \/ identifierQuoteRaises(fromLocation)
           THEN /\ proc' = [proc EXCEPT ![w] =
                              RaiseOutside(closed, "RuntimeError: Illegal character in field.")]
                /\ UNCHANGED <<storageVars, tables, views, log, faults>>
           ELSE \/ /\ log' = [log EXCEPT ![w] =
                                Append(@, Entry("CREATE TABLE AS SELECT",
                                                to_name, from_name, <<>>, err))]
                   /\ IF err # ""
                      THEN /\ proc' = [proc EXCEPT ![w] = RaiseOutside(closed, err)]
                           /\ UNCHANGED tables
                      ELSE /\ proc' = [proc EXCEPT ![w] =
                                         [closed EXCEPT !.pc = "done"]]
                           /\ tables' = IF to \in DOMAIN tables THEN tables
                                        ELSE tables @@ (to :> tables[from])
                   /\ UNCHANGED <<storageVars, views, faults>>
                \/ StorageFault(w, "CREATE TABLE AS SELECT", to_name, from_name)

\* the calls of the storage layer and of the formatter behind it
NextStorage ==
    \E w \in Writers :
        \/ __init__(w)
        \/ _createDb(w)
        \/ _repoDbExists(w)
        \/ write(w)
        \/ read(w)
        \/ copyFile(w)
        \/ _egest(w)
        \/ _egest_select(w)
        \/ Connect(w)
        \/ QueryMaxLen(w)
        \/ _create_table(w)
        \/ _create_view(w)
        \/ _do_ingest(w)
        \/ _do_ingest_commit(w)
        \/ _rename_table(w)
        \/ _rename_table_drop(w)

\* registrations only
NextRegistry ==
    \E formattable \in Formattables, formatter \in FormatterClasses :
        registerFormatter(formattable, formatter)


----------------------------------------------------------------------------
(* The alias resolver: aliases_for(name, mappings) *)

\* a mapping is a pair (source, target)
Mapping(source, target) == <<source, target>>

\* a check that accepts every alias
RECURSIVE valid_always(_, _, _, _)
valid_always(mappings, source, alias, j) == TRUE

\* the inner loop over mappings[i + 1:], from position j on: the alias is
\* valid unless a source that starts with `source` is a prefix of it
RECURSIVE valid(_, _, _, _)
valid(mappings, source, alias, j) ==
    IF j > Len(mappings) THEN TRUE
    ELSE IF ~startswith(mappings[j][1], source) THEN TRUE
    ELSE IF startswith(alias, mappings[j][1]) THEN FALSE
    ELSE valid(mappings, source, alias, j + 1)

\* source + name[len(target):]
alias_of(source, target, name) ==
    source \o SubSeq(name, Len(target) + 1, Len(name))

\* one round of reverse alias substitution: the new names
new_names(names, mappings) ==
    {alias_of(mappings[i][1], mappings[i][2], name) :
        <<name, i>> \in
            {ni \in names \X (1..Len(mappings)) :
                /\ startswith(ni[1], mappings[ni[2]][2])
                /\ valid(mappings, mappings[ni[2]][1],
                         alias_of(mappings[ni[2]][1], mappings[ni[2]][2], ni[1]),
                         ni[2] + 1)}}

\* a loop of one round at most
max_rounds_one(mappings) == 1

\* the most rounds of the loop: len(mappings)
max_rounds(mappings) == Len(mappings)

\* aliases_for: one pass of the while loop, or the return when its
\* condition is false
aliases_for(w) ==
    LET p == proc[w]
        l == p.locals
        mappings == p.args.mappings
        round == new_names(l.names, mappings)
    IN  /\ p.pc = "aliases"
        /\ proc' = [proc EXCEPT ![w] =
                      IF l.n < max_rounds(mappings) /\ Cardinality(l.names) > 0
                      THEN [p EXCEPT !.locals = [n |-> l.n + 1,
                                                 aliases |-> l.aliases \cup round,
                                                 names |-> round]]
                      ELSE [p EXCEPT !.pc = "done", !.result = l.aliases]]
        /\ UNCHANGED <<storageVars, tables, views, log, faults>>

NextAlias == \E w \in Writers : aliases_for(w)

----------------------------------------------------------------------------
(* FieldFormatter.format_value, one call *)

\* A double is NaN, an infinity (v is its sign) or a finite number. The
\* finite doubles of the model are the integers from -DBL_MAX to DBL_MAX:
\* a product beyond them is an infinity, as in IEEE 754 arithmetic.
NaN == [kind |-> "nan", v |-> 0]
PosInf == [kind |-> "inf", v |-> 1]
NegInf == [kind |-> "inf", v |-> -1]
FloatValue(n) == [kind |-> "float", v |-> n]

\* the largest finite double
DBL_MAX == 100

\* an lsst.afw.geom.Angle, which holds its value in radians as a double
AngleValue(f) == [kind |-> "angle", v |-> 0, radians |-> f]

\* degrees per radian (180 / pi), rounded
DegreesPerRadian == 57

\* the product of a double and a positive number
times(f, k) ==
    IF f.kind # "float" THEN f
    ELSE IF f.v * k > DBL_MAX THEN PosInf
    ELSE IF f.v * k < -DBL_MAX THEN NegInf
    ELSE FloatValue(f.v * k)

\* Angle.asDegrees()
asDegrees(angle) == times(angle.radians, DegreesPerRadian)

\* math.isinf that finds no number infinite
isinf_never(number) == FALSE

\* math.isnan, math.isinf
isnan(number) == number.kind = "nan"
isinf(number) == number.kind = "inf"

\* format_string.format(number) for "{:.9g}" and "{:.17g}": a whole number
\* of fewer digits than the precision is written without a fraction
format(format_string, number) ==
    CASE number.kind = "nan" -> <<"n", "a", "n">>
      [] number.kind = "inf" ->
           IF number.v < 0 THEN <<"-", "i", "n", "f">> ELSE <<"i", "n", "f">>
      [] OTHER -> str(number.v)

_format_number(format_string, number) ==
    IF isnan(number) \/ isinf(number) THEN <<"N", "U", "L", "L">>
    ELSE format(format_string, number)

\* what the format_value_callable of a formatter table entry does with a
\* value: the exception it raises ("" for none) and the text it returns.
\* None, and an integer given to an entry for angles, strings or arrays,
\* are not what the callable expects: str(None) is "None", a conditional
\* expression takes None for false, math.isnan and len raise TypeError, a
\* missing method (asDegrees, replace) AttributeError.
call_format_value_callable(type, value) ==
    IF value = NoValue
    THEN CASE type \in {"U", "I", "L"} ->
                [exc |-> "", text |-> <<"N", "o", "n", "e">>]
           [] type = "Flag" -> [exc |-> "", text |-> <<"0">>]
           [] type \in {"F", "D"} -> [exc |-> "TypeError", text |-> <<>>]
           [] type \in {"Angle", "String"} ->
                [exc |-> "AttributeError", text |-> <<>>]
           [] OTHER -> [exc |-> "TypeError", text |-> <<>>]
    ELSE CASE type = "F" /\ value.kind \in {"float", "nan", "inf"} ->
                [exc |-> "", text |-> _format_number("{:.9g}", value)]
           [] type = "D" /\ value.kind \in {"float", "nan", "inf"} ->
                [exc |-> "", text |-> _format_number("{:.17g}", value)]
           [] type = "Angle" /\ value.kind = "angle" ->
                [exc |-> "",
                 text |-> _format_number("{:.17g}", asDegrees(value))]
           [] type \in {"Angle", "String"} ->
                [exc |-> "AttributeError", text |-> <<>>]
           [] type \in {"ArrayU", "ArrayI", "ArrayF", "ArrayD"} ->
                [exc |-> "TypeError", text |-> <<>>]
           [] OTHER -> [exc |-> "", text |-> format_value_callable(type, value)]

\* format_value: the test of line 42 and the return of "NULL", or the
\* call of the entry's format_value_callable
FieldFormatter_format_value(w) ==
    LET p == proc[w]
    IN  /\ p.pc = "format_value"
        /\ proc' = [proc EXCEPT ![w] =
                      IF is_None(p.args.value)
                      THEN [p EXCEPT !.pc = "done",
                                     !.result = <<"N", "U", "L", "L">>]
                      ELSE [p EXCEPT !.pc = "callable"]]
        /\ UNCHANGED <<storageVars, tables, views, log, faults>>

\* the format_value_callable runs, and format_value returns what it
\* returns or is left by its exception
FieldFormatter_format_value_callable(w) ==
    LET p == proc[w]
        r == call_format_value_callable(p.args.type, p.args.value)
    IN  /\ p.pc = "callable"
        /\ proc' = [proc EXCEPT ![w] =
                      IF r.exc # ""
                      THEN RaiseOutside(p, r.exc)
                      ELSE [p EXCEPT !.pc = "done", !.result = r.text]]
        /\ UNCHANGED <<storageVars, tables, views, log, faults>>

NextFormat ==
    \E w \in Writers :
        \/ FieldFormatter_format_value(w)
        \/ FieldFormatter_format_value_callable(w)

----------------------------------------------------------------------------
(* The repository configuration: MySqlStorage.putRepositoryCfg and         *)
(* getRepositoryCfg, ButlerRepoCfgFmt (butlerRepoCfgFmt.py)                *)

\* the metadata table
RepositoryCfgTable == <<"repositoryCfg">>

\* a RepositoryCfg
RepositoryCfg(root, mapper, mapperArgs, parents, policy) ==
    [root |-> root, mapper |-> mapper, mapperArgs |-> mapperArgs,
     parents |-> parents, policy |-> policy]

\* a uri as urlparse splits it; the empty string
Uri(netloc, path) == [netloc |-> netloc, path |-> path]
EmptyString == Uri(<<>>, <<>>)

\* pickle.dumps and pickle.loads: the text holds the value
dumps(obj) == [pickled |-> obj]
loads(text) == text.pickled

\* MySQL: duplicate entry for a key
ER_DUP_ENTRY == "1062"

\* the arguments and locals of the calls
CfgArgs(uri, cfg, loc) == [uri |-> uri, create |-> FALSE, cfg |-> cfg, loc |-> loc]

\* copy.copy(obj): an object of equal attributes
copy(obj) == obj

\* putRepositoryCfg, lines 380-383: the uri, and the copy of cfg made when
\* the cfg is written at its own root. Line 383 is `cfg.root == ''`, a
\* comparison whose value is dropped: the copy keeps its root.
putRepositoryCfg(w) ==
    LET p == proc[w]
        cfg == p.args.cfg
        loc == p.args.loc
        uri == IF loc # None /\ loc[1] # EmptyString THEN loc[1] ELSE cfg.root
        copied == IF cfg.root = uri THEN copy(cfg) ELSE cfg
    IN  /\ p.pc = "put"
        /\ proc' = [proc EXCEPT ![w] =
                      [p EXCEPT !.args.uri = uri, !.args.cfg = copied,
                                !.pc = "init"]]
        /\ UNCHANGED <<storageVars, tables, views, log, faults>>

\* putRepositoryCfg and getRepositoryCfg: except NoRepositoryAtRoot:
\* return None
except_NoRepositoryAtRoot(w) ==
    LET p == proc[w]
    IN  /\ p.op \in {"putRepositoryCfg", "getRepositoryCfg"}
        /\ p.pc = "raised"
        /\ p.exc = "NoRepositoryAtRoot"
        /\ proc' = [proc EXCEPT ![w] =
                      [p EXCEPT !.pc = "done", !.exc = "", !.result = None]]
        /\ UNCHANGED <<storageVars, tables, views, log, faults>>

\* putRepositoryCfg and getRepositoryCfg after the storage object is made:
\* the formatter of RepositoryCfg is looked up, made and called, and the
\* formatter connects
CfgFormatter(w) ==
    LET p == proc[w]
        formatter == _getFormatter("RepositoryCfg")
    IN  /\ p.op \in {"putRepositoryCfg", "getRepositoryCfg"}
        /\ p.pc = "ready"
        /\ proc' = [proc EXCEPT ![w] =
                      IF formatter = None
                      THEN RaiseOutside(p, "RuntimeError: No formatter registered")
                      ELSE [p EXCEPT !.locals.formatter = formatter,
                                     !.conn = "open",
                                     !.pc = IF p.op = "putRepositoryCfg"
                                            THEN "writeV1" ELSE "read"]]
        /\ UNCHANGED <<storageVars, tables, views, log, faults>>

\* _writeV1: CREATE TABLE IF NOT EXISTS repositoryCfg (data definition is
\* committed by the server at once)
_writeV1(w) ==
    LET p == proc[w]
    IN  /\ p.pc = "writeV1"
        /\ \/ /\ log' = [log EXCEPT ![w] =
                           Append(@, Entry("CREATE TABLE IF NOT EXISTS",
                                           RepositoryCfgTable, <<>>, <<>>, ""))]
              /\ tables' = IF RepositoryCfgTable \in DOMAIN tables THEN tables
                           ELSE tables @@ (RepositoryCfgTable :>
                                             [cols |-> <<>>, rows |-> <<>>])
              /\ proc' = [proc EXCEPT ![w].pc = "insert"]
              /\ UNCHANGED <<storageVars, views, faults>>
           \/ Fault(w, "CREATE TABLE IF NOT EXISTS", RepositoryCfgTable, <<>>, <<>>)

\* the row _writeV1 inserts
_writeV1_row(obj) ==
    [sVersion |-> 1, id |-> 0,
     root |-> dumps(obj.root), mapper |-> dumps(obj.mapper),
     mapperArgs |-> dumps(obj.mapperArgs), parents |-> dumps(obj.parents),
     policy |-> dumps(obj.policy)]

\* the rows of the metadata table with the primary key of the row
SameKey(row) ==
    {k \in 1..Len(tables[RepositoryCfgTable].rows) :
        tables[RepositoryCfgTable].rows[k].id = row.id}

\* a process holds an inserted row it has not committed
Pending(v) == proc[v].pc = "commit"

\* _writeV1: INSERT INTO repositoryCfg. The server makes the statement wait
\* while another transaction holds an uncommitted row of the same key,
\* and rejects it when the key is in the table.
_writeV1_insert(w) ==
    LET p == proc[w]
        row == _writeV1_row(p.args.cfg)
        err == IF SameKey(row) # {} THEN ER_DUP_ENTRY ELSE ""
    IN  /\ p.pc = "insert"
        /\ \A v \in Writers \ {w} : ~Pending(v)
        /\ \/ /\ log' = [log EXCEPT ![w] =
                           Append(@, Entry("INSERT", RepositoryCfgTable,
                                           <<row>>, <<>>, err))]
              /\ proc' = [proc EXCEPT ![w] =
                            IF err # "" THEN Raise(p, "IntegrityError")
                            ELSE [p EXCEPT !.locals = [formatter |-> p.locals.formatter,
                                                       row |-> row],
                                           !.pc = "commit"]]
              /\ UNCHANGED <<storageVars, tables, views, faults>>
           \/ Fault(w, "INSERT", RepositoryCfgTable, <<row>>, <<>>)

\* _writeV1: conn.commit(); a connection closed without it rolls the row
\* back
_writeV1_commit(w) ==
    LET p == proc[w]
    IN  /\ p.pc = "commit"
        /\ \/ /\ log' = [log EXCEPT ![w] =
                           Append(@, Entry("COMMIT", <<>>, <<>>, <<>>, ""))]
              /\ tables' = [tables EXCEPT ![RepositoryCfgTable].rows =
                              Append(@, p.locals.row)]
              /\ proc' = [proc EXCEPT ![w] = Return([p EXCEPT !.result = None])]
              /\ UNCHANGED <<storageVars, views, faults>>
           \/ Fault(w, "COMMIT", <<>>, <<>>, <<>>)

\* ButlerRepoCfgFmt.read: SELECT sVersion FROM repositoryCfg, fetchone and
\* the test of the version. Without the table the ProgrammingError is
\* caught and None returned; without a row fetchone gives None and row[0]
\* raises TypeError.
ButlerRepoCfgFmt_read(w) ==
    LET p == proc[w]
        missing == RepositoryCfgTable \notin DOMAIN tables
        rows == tables[RepositoryCfgTable].rows
    IN  /\ p.pc = "read"
        /\ \/ /\ log' = [log EXCEPT ![w] =
                           Append(@, Entry("SELECT sVersion", RepositoryCfgTable,
                                           <<>>, <<>>,
                                           IF missing THEN ER_NO_SUCH_TABLE ELSE ""))]
              /\ proc' = [proc EXCEPT ![w] =
                            IF missing THEN Return([p EXCEPT !.result = None])
                            ELSE IF Len(rows) = 0 THEN Raise(p, "TypeError")
                            ELSE IF rows[1].sVersion = 1 THEN [p EXCEPT !.pc = "readV1"]
                            ELSE Raise(p, "RuntimeError: Unsupported version")]
              /\ UNCHANGED <<storageVars, tables, views, faults>>
           \/ Fault(w, "SELECT sVersion", RepositoryCfgTable, <<>>, <<>>)

\* the RepositoryCfg that _readV1 makes of the selected row (root, mapper,
\* mapperArgs, parents, policy): lines 52-56, where policy is
\* pickle.loads(row[1])
_readV1_cfg(row) ==
    RepositoryCfg(loads(row[1]), loads(row[2]), loads(row[3]), loads(row[4]),
                  loads(row[2]))

\* _readV1: SELECT root, mapper, mapperArgs, parents, policy WHERE id = 0
_readV1(w) ==
    LET p == proc[w]
        rows == tables[RepositoryCfgTable].rows
        found == {k \in 1..Len(rows) : rows[k].id = 0}
        r == rows[CHOOSE k \in found : TRUE]
        row == <<r.root, r.mapper, r.mapperArgs, r.parents, r.policy>>
    IN  /\ p.pc = "readV1"
        /\ \/ /\ log' = [log EXCEPT ![w] =
                           Append(@, Entry("SELECT root", RepositoryCfgTable,
                                           <<>>, <<>>, ""))]
              /\ proc' = [proc EXCEPT ![w] =
                            IF found = {} THEN Raise(p, "TypeError")
                            ELSE Return([p EXCEPT !.result = <<_readV1_cfg(row)>>])]
              /\ UNCHANGED <<storageVars, tables, views, faults>>
           \/ Fault(w, "SELECT root", RepositoryCfgTable, <<>>, <<>>)

NextCfg ==
    \E w \in Writers :
        \/ putRepositoryCfg(w)
        \/ __init__(w)
        \/ _repoDbExists(w)
        \/ except_NoRepositoryAtRoot(w)
        \/ CfgFormatter(w)
        \/ _writeV1(w)
        \/ _writeV1_insert(w)
        \/ _writeV1_commit(w)
        \/ ButlerRepoCfgFmt_read(w)
        \/ _readV1(w)


----------------------------------------------------------------------------
(* Initial states: the scenarios *)

\* the sequences over S of length lo..hi
SeqsOf(S, lo, hi) == UNION {[1..k -> S] : k \in lo..hi}

Field(name, type) == [name |-> name, type |-> type]

Job(cat, table_name, view_name, max_query_len, allow_replace) ==
    [cat |-> cat, table_name |-> table_name, view_name |-> view_name,
     max_query_len |-> max_query_len, allow_replace |-> allow_replace]

\* a process about to call _ingest
Start(job) ==
    [job |-> job, pc |-> "start", conn |-> "none", table_name |-> <<>>,
     view_name |-> <<>>, max_query_len |-> 0, temp |-> <<>>, pos |-> 0,
     i |-> 0, exc |-> "", warned |-> FALSE,
     op |-> "_ingest", args |-> NoArgs, self |-> NoStorage,
     locals |-> NoLocals, result |-> <<>>]

OneColumn == <<Field(<<"a">>, "I")>>

Dest == <<"d">>

\* a process that never runs
Off == [Start(Job([schema |-> OneColumn, rows |-> <<>>], Dest, <<>>, None, FALSE))
          EXCEPT !.pc = "off"]

NoTables == [n \in {} |-> [cols |-> <<>>, rows |-> <<>>]]

\* the destination name holds a table written earlier
Occupied == [n \in {Dest} |->
               [cols |-> <<<<"a">>>>, rows |-> <<[src |-> 0, text |-> <<"(","9",")">>]>>]]

InitServer(tbls) ==
    /\ tables = tbls
    /\ views = [n \in {} |-> [from |-> <<>>, cols |-> <<>>]]
    /\ log = [w \in Writers |-> <<>>]
    /\ faults = MaxFaults
    /\ formatters = Imported
    /\ calls = ImportCalls
    /\ databases = {RepoDb}

\* two ingestions into the same destination name
InitConcurrent ==
    /\ \E occupied \in BOOLEAN : InitServer(IF occupied THEN Occupied ELSE NoTables)
    /\ \E view_name \in {<<>>, <<"v">>}, mql \in {None, <<31>>} :
         proc = [w \in Writers |->
                   IF w = 1
                   THEN Start(Job([schema |-> OneColumn,
                                   rows |-> <<<<IntValue(1)>>, <<IntValue(2)>>>>],
                                  Dest, view_name, mql, FALSE))
                   ELSE Start(Job([schema |-> OneColumn,
                                   rows |-> <<<<IntValue(3)>>>>],
                                  Dest, <<>>, None, FALSE))]

\* one ingestion with a view, a configured REPLACE, the server's packet size
\* and a destination name that is taken
InitAux ==
    /\ InitServer(Occupied)
    /\ proc = [w \in Writers |->
                 IF w = 1
                 THEN Start(Job([schema |-> OneColumn,
                                 rows |-> <<<<IntValue(1)>>, <<IntValue(2)>>>>],
                                Dest, <<"v">>, None, TRUE))
                 ELSE Off]

ValuePool == {IntValue(1), IntValue(2), IntValue(30), NoValue}

\* one ingestion: every catalog of up to MaxRows rows over ValuePool, every
\* max_query_len from just below the prefix length on
InitBatch ==
    \/ InitAux
    \/ /\ InitServer(NoTables)
       /\ \E vals \in SeqsOf(ValuePool, 0, MaxRows) :
            LET base == Len(sql_prefix(FALSE, <<"t","1">>, OneColumn))
            IN  \E mql \in (base - 1)..(base + MaxSlack) :
                  proc = [w \in Writers |->
                            IF w = 1
                            THEN Start(Job([schema |-> OneColumn,
                                            rows |-> [k \in 1..Len(vals) |-> <<vals[k]>>]],
                                           Dest, <<>>, <<mql>>, FALSE))
                            ELSE Off]

NameChars == {"a", "A", ".", "-"}

\* most characters in a field name of the schema scenario
MaxNameLen == 2

\* three fields in an order that is not the alphabetical one
ThreeFields == <<<<"b">>, <<"a">>, <<"c">>>>

\* one ingestion of a one-row catalog: every schema of two fields with names
\* over NameChars; one ingestion of a two-row catalog of three fields, of
\* which none or one has a type without a formatter
InitSchema ==
    \/ InitAux
    \/ /\ InitServer(NoTables)
       /\ \E u \in 0..3 :
            proc = [w \in Writers |->
                      IF w = 1
                      THEN Start(Job([schema |-> [k \in 1..3 |->
                                         Field(ThreeFields[k],
                                               IF k = u THEN "Point" ELSE "I")],
                                      rows |-> <<<<IntValue(1), IntValue(2), IntValue(3)>>,
                                                 <<IntValue(4), IntValue(5), IntValue(6)>>>>],
                                     Dest, <<>>, <<ServerMaxPacket>>, FALSE))
                      ELSE Off]
    \/ /\ InitServer(NoTables)
       /\ \E n1, n2 \in SeqsOf(NameChars, 1, MaxNameLen), t1 \in {"I", "Point"} :
            proc = [w \in Writers |->
                      IF w = 1
                      THEN Start(Job([schema |-> <<Field(n1, t1), Field(n2, "I")>>,
                                      rows |-> <<<<IntValue(1), IntValue(2)>>>>],
                                     Dest, <<>>, <<ServerMaxPacket>>, FALSE))
                      ELSE Off]

\* the types of the objects written and read: the catalog class, a
\* subclass of it, and a class with no formatter
PythonTypes == {"BaseCatalog", "SourceCatalog", "TestClass"}

\* the classes of a type in method resolution order
mro(objType) ==
    IF objType = "SourceCatalog"
    THEN <<"SourceCatalog", "BaseCatalog", "object">>
    ELSE <<objType, "object">>

\* a call of the storage layer by a process: the storage object is made
\* for the uri, then the operation is called on it; the formatter is made
\* by the storage object and has the default configuration
StorageCall(op, uri, create, pythonType, locationList, toLocation, cat) ==
    [Start(Job(cat, <<>>, <<>>, None, FALSE)) EXCEPT
        !.pc = "init",
        !.op = op,
        !.args = [uri |-> uri, create |-> create, pythonType |-> pythonType,
                  locationList |-> locationList, toLocation |-> toLocation]]

Netlocs == {<<"h", ":", "1">>, <<"h">>}

Paths == {<<"/", "r">>, <<"/", "r", ";">>}

Locations == {Dest, <<"e">>, <<"d", ";">>}

ToLocations == {<<"e">>, <<"e", ";">>, <<BackTick>>}

TwoRows == [schema |-> OneColumn, rows |-> <<<<IntValue(1)>>, <<IntValue(2)>>>>]

\* two fields whose names differ by case only
ClashCat == [schema |-> <<Field(<<"a">>, "I"), Field(<<"A">>, "I")>>,
             rows |-> <<<<IntValue(1), IntValue(2)>>>>]

\* a second row that no statement has room for
OversizeCat == [schema |-> <<Field(<<"a">>, "I"), Field(<<"b">>, "I")>>,
                rows |-> <<<<IntValue(1), IntValue(1)>>,
                           <<IntValue(2000000000), IntValue(2000000000)>>>>]

StorageCats == {TwoRows, ClashCat, OversizeCat}

\* one process uses the storage layer on a server where the repository
\* database does not exist yet, or exists and holds under the location `d`
\* a catalog written earlier
InitStorage ==
    /\ views = [n \in {} |-> [from |-> <<>>, cols |-> <<>>]]
    /\ log = [w \in Writers |-> <<>>]
    /\ faults = MaxFaults
    /\ formatters = Imported
    /\ calls = ImportCalls
    /\ \E exists \in BOOLEAN :
         /\ databases = IF exists THEN {RepoDb} ELSE {}
         /\ tables = IF exists THEN Occupied ELSE NoTables
    /\ \E netloc \in Netlocs, path \in Paths, create \in BOOLEAN,
          pythonType \in PythonTypes, location \in Locations :
         LET uri == [netloc |-> netloc, path |-> path]
         IN  \/ \E cat \in StorageCats :
                  proc = [w \in Writers |->
                            IF w = 1
                            THEN StorageCall("write", uri, create, pythonType,
                                             <<location>>, <<>>, cat)
                            ELSE Off]
             \/ proc = [w \in Writers |->
                          IF w = 1
                          THEN StorageCall("read", uri, create, pythonType,
                                           <<location>>, <<>>, TwoRows)
                          ELSE Off]
             \/ \E toLocation \in ToLocations :
                  proc = [w \in Writers |->
                            IF w = 1
                            THEN StorageCall("copyFile", uri, create, pythonType,
                                             <<location>>, toLocation, TwoRows)
                            ELSE Off]

\* before the package is imported: no registration yet
InitRegistry ==
    /\ tables = NoTables
    /\ views = [n \in {} |-> [from |-> <<>>, cols |-> <<>>]]
    /\ log = [w \in Writers |-> <<>>]
    /\ faults = MaxFaults
    /\ proc = [w \in Writers |-> Off]
    /\ formatters = [t \in {} |-> ""]
    /\ calls = <<>>
    /\ databases = {RepoDb}

\* a process about to call aliases_for(name, mappings)
AliasCall(name, mappings) ==
    [Off EXCEPT !.pc = "aliases", !.op = "aliases_for",
                !.args = [name |-> name, mappings |-> mappings],
                !.locals = [n |-> 0, aliases |-> {}, names |-> {name}],
                !.result = {}]

\* the prefixes and names of the alias scenario
AliasStrings == SeqsOf({"a", "b"}, 1, 2)

\* most rules in the alias map of the alias scenario
MaxRules == 2

\* Python's order of two strings over the scenario's letters
RECURSIVE Less(_, _)
Less(s, t) ==
    IF Len(t) = 0 THEN FALSE
    ELSE IF Len(s) = 0 THEN TRUE
    ELSE IF s[1] = t[1] THEN Less(Tail(s), Tail(t))
    ELSE s[1] = "a"

\* the alias maps as sorted((s, t) for ...) yields them: distinct sources
\* in increasing order
SortedMappings ==
    {m \in SeqsOf(AliasStrings \X AliasStrings, 0, MaxRules) :
        \A k \in 1..(Len(m) - 1) : Less(m[k][1], m[k + 1][1])}

old_ == <<"o", "l", "d", "_">>
new_ == <<"n", "e", "w", "_">>
old_x == old_ \o <<"x">>
new_x == new_ \o <<"x">>
new_y == new_ \o <<"y">>

\* the alias maps of the documented examples
OneRule == <<Mapping(old_, new_)>>

TwoRules == <<Mapping(old_, new_), Mapping(old_x, new_y)>>

\* one call of aliases_for: every name and sorted alias map over
\* AliasStrings, and the documented examples
InitAlias ==
    /\ tables = NoTables
    /\ views = [n \in {} |-> [from |-> <<>>, cols |-> <<>>]]
    /\ log = [w \in Writers |-> <<>>]
    /\ faults = MaxFaults
    /\ formatters = Imported
    /\ calls = ImportCalls
    /\ databases = {RepoDb}
    /\ \/ \E name \in AliasStrings, mappings \in SortedMappings :
            proc = [w \in Writers |->
                      IF w = 1 THEN AliasCall(name, mappings) ELSE Off]
       \/ \E name \in {new_x, new_y}, mappings \in {<<>>, OneRule, TwoRules} :
            proc = [w \in Writers |->
                      IF w = 1 THEN AliasCall(name, mappings) ELSE Off]

SpecAlias == InitAlias /\ [][NextAlias]_vars

\* a process about to call field_formatters[type].format_value(value)
FormatCall(type, value) ==
    [Off EXCEPT !.pc = "format_value", !.op = "format_value",
                !.args = [type |-> type, value |-> value],
                !.result = <<>>]

\* the values given to format_value: None, integers for every entry,
\* flags for the Flag entry, doubles for F and D, angles for Angle
\* the doubles given to the entries for floating-point numbers
FloatValues ==
    {NaN, PosInf, NegInf} \cup {FloatValue(n) : n \in (-DBL_MAX)..DBL_MAX}

FormatInputs ==
    (FormatterKeys \X (ValuePool \cup {IntValue(0)}))
      \cup ({"Flag"} \X {FlagValue(TRUE), FlagValue(FALSE)})
      \cup ({"F", "D"} \X FloatValues)
      \cup ({"Angle"} \X {AngleValue(f) : f \in FloatValues})

\* one call of format_value
InitFormat ==
    /\ tables = NoTables
    /\ views = [n \in {} |-> [from |-> <<>>, cols |-> <<>>]]
    /\ log = [w \in Writers |-> <<>>]
    /\ faults = MaxFaults
    /\ formatters = Imported
    /\ calls = ImportCalls
    /\ databases = {RepoDb}
    /\ \E i \in FormatInputs :
          proc = [w \in Writers |->
                    IF w = 1 THEN FormatCall(i[1], i[2]) ELSE Off]

SpecFormat == InitFormat /\ [][NextFormat]_vars

\* a process about to call MySqlStorage.putRepositoryCfg(cfg, loc)
PutCall(cfg, loc) ==
    [Off EXCEPT !.pc = "put", !.op = "putRepositoryCfg",
                !.args = CfgArgs(EmptyString, cfg, loc), !.result = <<>>]

\* a process about to call MySqlStorage.getRepositoryCfg(uri)
GetCall(uri) ==
    [Off EXCEPT !.pc = "init", !.op = "getRepositoryCfg",
                !.args = CfgArgs(uri, RepositoryCfg(uri, "", "", "", ""), None),
                !.result = <<>>]

\* the uri of the repository database, and another spelling of it
RepoUri == Uri(<<"h", ":", "1">>, <<"/", "r">>)
RepoUriSlash == Uri(<<"h", ":", "1">>, <<"/", "r", "/">>)

\* the configurations written: the root is the repository's uri
Cfgs ==
    {RepositoryCfg(RepoUri, mapper, "args", "parents", policy) :
        mapper \in {"MyMapper", "OtherMapper"}, policy \in {"policy", "MyMapper"}}

\* loc of putRepositoryCfg: omitted, the root of the cfg, another uri
Locs == {None, <<RepoUri>>, <<RepoUriSlash>>}

\* two calls on one repository database, which exists or not: a put and a
\* get, or two puts
InitCfg ==
    /\ tables = NoTables
    /\ views = [n \in {} |-> [from |-> <<>>, cols |-> <<>>]]
    /\ log = [w \in Writers |-> <<>>]
    /\ faults = MaxFaults
    /\ formatters = Imported
    /\ calls = ImportCalls
    /\ \E exists \in BOOLEAN : databases = IF exists THEN {RepoDb} ELSE {}
    /\ \E cfg \in Cfgs, loc \in Locs :
         \/ proc = [w \in Writers |->
                      IF w = 1 THEN PutCall(cfg, loc) ELSE GetCall(RepoUri)]
         \/ \E other \in Cfgs :
              proc = [w \in Writers |->
                        IF w = 1 THEN PutCall(cfg, loc) ELSE PutCall(other, None)]

SpecCfg == InitCfg /\ [][NextCfg]_vars

Spec == InitConcurrent /\ [][Next]_vars

\* the storage layer, and two concurrent ingestions
SpecStorage == (InitStorage \/ InitConcurrent) /\ [][NextStorage]_vars

SpecRegistry == InitRegistry /\ [][NextRegistry]_vars

SpecBatch == InitBatch /\ [][Next]_vars

SpecSchema == InitSchema /\ [][Next]_vars


----------------------------------------------------------------------------
(* Reading the statement logs *)

RECURSIVE Flatten(_)
Flatten(seqs) == IF Len(seqs) = 0 THEN <<>> ELSE seqs[1] \o Flatten(Tail(seqs))

Sent(w, kind) == SelectSeq(log[w], LAMBDA e : e.kind = kind)

\* the row tuples of the INSERT/REPLACE statements of w, in execution order
InsertedTuples(w) ==
    LET ins == Sent(w, "INSERT")
    IN  Flatten([k \in 1..Len(ins) |-> StatementTuples(ins[k].sql)])

\* the text of a row without the separator that follows it
RowTuple(schema, row) ==
    <<"(">>
    \o join(<<",">>, [k \in 1..Len(_schema_items(schema, 1)) |->
                        format_value(schema[_schema_items(schema, 1)[k]].type,
                                     row[_schema_items(schema, 1)[k]])])
    \o <<")">>

CatalogTuples(w) ==
    LET cat == proc[w].job.cat
    IN  [k \in 1..Len(cat.rows) |-> RowTuple(cat.schema, cat.rows[k])]

Committed(w) == \E k \in 1..Len(log[w]) : log[w][k].kind = "COMMIT" /\ log[w][k].err = ""

\* the prefix of the statements of w
PrefixOf(w) ==
    sql_prefix(proc[w].job.allow_replace, proc[w].temp, proc[w].job.cat.schema)

\* the bytes a statement of w has for its rows
BudgetOf(w) == proc[w].max_query_len - Len(PrefixOf(w))

IsPrefix(s, t) == Len(s) <= Len(t) /\ SubSeq(t, 1, Len(s)) = s

----------------------------------------------------------------------------
(* C1: when _do_ingest ends without an error (it has committed), the row  *)
(* tuples of the INSERT/REPLACE statements it executed, concatenated in    *)
(* execution order, are the catalog's rows in catalog order, each exactly  *)
(* once and whole; the staging table holds them in that order.             *)
C1_RowsExactlyOnceInOrder ==
    \A w \in Writers :
        Committed(w) =>
            /\ InsertedTuples(w) = CatalogTuples(w)
            /\ \A k \in 1..Len(log[w]) :
                 log[w][k].kind = "INSERT" =>
                     log[w][k].sql = PrefixOf(w)
                                     \o join(<<",">>, StatementTuples(log[w][k].sql))
            /\ proc[w].pc = "rename" /\ proc[w].i = 0 =>
                 [k \in 1..Len(tables[Resolve(proc[w].temp)].rows) |->
                     tables[Resolve(proc[w].temp)].rows[k].text] = CatalogTuples(w)

\* a catalog of three rows went out in two statements and was committed
C1_Witness ==
    \E w \in Writers :
        /\ Committed(w)
        /\ Len(proc[w].job.cat.rows) = 3
        /\ Len(Sent(w, "INSERT")) = 2

(* C2: every INSERT/REPLACE statement sent is at most max_query_len long. *)
C2_StatementWithinBudget ==
    \A w \in Writers :
        \A k \in 1..Len(log[w]) :
            log[w][k].kind = "INSERT" => Len(log[w][k].sql) <= proc[w].max_query_len

\* a statement of two rows that another row would have overfilled
C2_Witness ==
    \E w \in Writers :
        \E k \in 1..Len(log[w]) :
            /\ log[w][k].kind = "INSERT"
            /\ Len(StatementTuples(log[w][k].sql)) = 2
            /\ Len(log[w][k].sql) >= proc[w].max_query_len - 2
            /\ Len(Sent(w, "INSERT")) = 2


\* the catalog of w has a row whose tuple alone is longer than the budget
Oversized(w, k) ==
    Len(CatalogTuples(w)[k]) > proc[w].max_query_len - Len(PrefixOf(w))

FirstOversized(w) ==
    CHOOSE k \in 1..Len(CatalogTuples(w)) :
        Oversized(w, k) /\ \A j \in 1..(k - 1) : ~Oversized(w, j)

TooLarge == "RuntimeError: Single row is too large to insert"

\* the ingestion of w got as far as _do_ingest
Ingesting(w) == proc[w].temp # <<>> /\ proc[w].pc \notin {"create", "view"}

(* C3 as stated: a catalog with an oversized row, at any position, ends   *)
(* in the capacity error with no INSERT/REPLACE statement executed.       *)
C3_NoStatementBeforeCapacityError ==
    \A w \in Writers :
        /\ Ingesting(w)
        /\ \E k \in 1..Len(CatalogTuples(w)) : Oversized(w, k)
        /\ proc[w].exc = TooLarge
        => Len(Sent(w, "INSERT")) = 0

(* C3 amended: a catalog with an oversized row never commits and never    *)
(* reaches the rename; unless a statement fails first, it ends in the     *)
(* capacity error; the statements executed hold only rows that precede    *)
(* the first oversized row, in catalog order, and none at all when the    *)
(* first row is the oversized one.                                        *)
C3_CapacityErrorAfterEarlierRows ==
    \A w \in Writers :
        (Ingesting(w) /\ \E k \in 1..Len(CatalogTuples(w)) : Oversized(w, k)) =>
            /\ ~Committed(w)
            /\ proc[w].pc \in {"ingest", "raised"}
            /\ proc[w].pc = "raised" => proc[w].exc \in {TooLarge} \cup FaultKinds
            /\ IsPrefix(InsertedTuples(w), CatalogTuples(w))
            /\ Len(InsertedTuples(w)) < FirstOversized(w)
            /\ Oversized(w, 1) => Len(Sent(w, "INSERT")) = 0

\* the capacity error was raised for the third row, after a statement
\* with the two rows before it
C3_Witness ==
    \E w \in Writers :
        /\ proc[w].exc = TooLarge
        /\ Len(CatalogTuples(w)) = 3
        /\ Oversized(w, 3)
        /\ Len(InsertedTuples(w)) = 2

\* all rows of the catalog of w have tuples of one length
Uniform(w) ==
    \A j, k \in 1..Len(CatalogTuples(w)) :
        Len(CatalogTuples(w)[j]) = Len(CatalogTuples(w)[k])

\* ceil(n / m)
CeilDiv(n, m) == (n + m - 1) \div m

(* C4 as stated: with N rows whose tuples are K bytes each, the number of *)
(* statements is ceil(N / floor((B - prefixLen) / K)).                    *)
C4_StatementCountByTupleLength ==
    \A w \in Writers :
        (Committed(w) /\ Len(CatalogTuples(w)) > 0 /\ Uniform(w)) =>
            LET K == Len(CatalogTuples(w)[1])
                m == BudgetOf(w) \div K
            IN  m >= 1 =>
                  Len(Sent(w, "INSERT")) = CeilDiv(Len(CatalogTuples(w)), m)

(* C4 amended: each row costs its tuple and the separator after it, K + 1 *)
(* bytes: when floor((B - prefixLen) / (K + 1)) >= 1 the ingestion does   *)
(* not raise the capacity error, and once committed the number of         *)
(* statements is ceil(N / floor((B - prefixLen) / (K + 1))).              *)
C4_StatementCountWithSeparator ==
    \A w \in Writers :
        (Ingesting(w) /\ Len(CatalogTuples(w)) > 0 /\ Uniform(w)) =>
            LET K == Len(CatalogTuples(w)[1])
                m == BudgetOf(w) \div (K + 1)
            IN  m >= 1 =>
                  /\ proc[w].exc # TooLarge
                  /\ Committed(w) =>
                       Len(Sent(w, "INSERT")) = CeilDiv(Len(CatalogTuples(w)), m)

\* three rows of three bytes with room for two rows and separators: two
\* statements
C4_Witness ==
    \E w \in Writers :
        /\ Committed(w)
        /\ Len(CatalogTuples(w)) = 3
        /\ Uniform(w)
        /\ Len(CatalogTuples(w)[1]) = 3
        /\ BudgetOf(w) = 8
        /\ Len(Sent(w, "INSERT")) = 2


----------------------------------------------------------------------------
(* The statements of w with the given kind and outcome *)
Count(w, kind, err) ==
    Cardinality({k \in 1..Len(log[w]) : log[w][k].kind = kind /\ log[w][k].err = err})

IsFault(e) == e.err \in FaultKinds

(* C5: in the statements of one ingestion, every INSERT/REPLACE follows   *)
(* the successful CREATE TABLE, and every RENAME (and DROP) follows the   *)
(* last INSERT/REPLACE: when a RENAME is attempted all rows of the        *)
(* catalog have been inserted and committed.                              *)
C5_DdlThenDmlThenRename ==
    \A w \in Writers :
        \A j \in 1..Len(log[w]) :
            /\ log[w][j].kind = "INSERT" =>
                 /\ \E k \in 1..(j - 1) :
                      log[w][k].kind = "CREATE TABLE" /\ log[w][k].err = ""
                 /\ \A k \in 1..(j - 1) : log[w][k].kind \notin {"RENAME", "DROP"}
            /\ log[w][j].kind \in {"CREATE TABLE", "CREATE VIEW"} =>
                 \A k \in 1..(j - 1) : log[w][k].kind \notin {"INSERT", "RENAME", "DROP"}
            /\ log[w][j].kind \in {"RENAME", "DROP"} =>
                 /\ proc[w].pos = Len(proc[w].job.cat.rows)
                 /\ InsertedTuples(w) = CatalogTuples(w)
                 /\ \E k \in 1..(j - 1) : log[w][k].kind = "COMMIT"

\* an ingestion with two INSERT statements that has renamed its table
C5_Witness ==
    \E w \in Writers :
        /\ Count(w, "CREATE TABLE", "") = 1
        /\ Count(w, "INSERT", "") = 2
        /\ Count(w, "RENAME", "") = 1

(* C6: at most 3 RENAME attempts are made; a RENAME that succeeds is the  *)
(* last statement and the call returns without a warning, so that when    *)
(* the first attempt finds the name free there is one RENAME and no DROP; *)
(* a RENAME that fails because the name is taken is followed by a DROP of *)
(* the destination name, and a DROP only follows such a RENAME.           *)
C6_RenameAttempts ==
    \A w \in Writers :
        /\ Len(Sent(w, "RENAME")) <= 3
        /\ Len(Sent(w, "DROP")) <= 3
        /\ \A j \in 1..Len(log[w]) :
             /\ (log[w][j].kind = "RENAME" /\ log[w][j].err = "") =>
                  /\ j = Len(log[w])
                  /\ proc[w].pc = "done" /\ ~proc[w].warned
                  /\ Len(Sent(w, "RENAME")) = 1 => Len(Sent(w, "DROP")) = 0
             /\ (log[w][j].kind = "RENAME"
                   /\ log[w][j].err = MYSQL_ER_TABLE_EXISTS_ERROR) =>
                  \/ j = Len(log[w]) /\ proc[w].pc = "drop"
                  \/ j < Len(log[w]) /\ log[w][j + 1].kind = "DROP"
                       /\ log[w][j + 1].tbl = log[w][j].arg
             /\ log[w][j].kind = "DROP" =>
                  /\ j > 1
                  /\ log[w][j - 1].kind = "RENAME"
                  /\ log[w][j - 1].err = MYSQL_ER_TABLE_EXISTS_ERROR

\* one writer found the name free and renamed at once; the other needed
\* its third attempt
C6_Witness ==
    /\ \E w \in Writers :
         /\ Len(Sent(w, "RENAME")) = 1
         /\ Count(w, "RENAME", "") = 1
         /\ Len(Sent(w, "DROP")) = 0
    /\ \E w \in Writers :
         /\ Len(Sent(w, "RENAME")) = 3
         /\ Count(w, "RENAME", "") = 1

(* C7 as stated: a writer whose RENAME met the name conflict, and whose   *)
(* statements met no failure of another kind, does not end in an          *)
(* exception: it publishes its table or returns with the warning and its  *)
(* populated staging table in place.                                      *)
C7_ConflictNeverRaises ==
    \A w \in Writers :
        (/\ Count(w, "RENAME", MYSQL_ER_TABLE_EXISTS_ERROR) > 0
         /\ \A k \in 1..Len(log[w]) : ~IsFault(log[w][k])) =>
            /\ proc[w].pc # "raised"
            /\ (proc[w].pc = "done" /\ proc[w].warned) =>
                 /\ Resolve(proc[w].temp) \in DOMAIN tables
                 /\ Len(tables[Resolve(proc[w].temp)].rows) = Len(CatalogTuples(w))

(* C8 as stated: a CREATE VIEW is over the destination table name and     *)
(* follows the successful RENAME; none is over the staging table name.    *)
C8_ViewOverDestinationAfterRename ==
    \A w \in Writers :
        \A j \in 1..Len(log[w]) :
            log[w][j].kind = "CREATE VIEW" =>
                /\ Resolve(log[w][j].arg) = Resolve(proc[w].table_name)
                /\ Resolve(log[w][j].arg) # Resolve(proc[w].temp)
                /\ \E k \in 1..(j - 1) :
                     log[w][k].kind = "RENAME" /\ log[w][k].err = ""

(* C9: every INSERT/REPLACE of a writer names the staging table that      *)
(* writer created, never the destination name, and no table, under any    *)
(* name, holds rows of two sources.                                       *)
C9_NoMixedTables ==
    /\ \A w \in Writers :
         \A j \in 1..Len(log[w]) :
             log[w][j].kind = "INSERT" =>
                 /\ log[w][j].tbl = proc[w].temp
                 /\ Resolve(log[w][j].tbl) # Resolve(proc[w].table_name)
                 /\ \E k \in 1..(j - 1) :
                      /\ log[w][k].kind = "CREATE TABLE"
                      /\ log[w][k].err = ""
                      /\ log[w][k].tbl = log[w][j].tbl
    /\ \A n \in DOMAIN tables :
         \A i, j \in 1..Len(tables[n].rows) :
             tables[n].rows[i].src = tables[n].rows[j].src

\* both writers have populated their staging tables, beside the table
\* that holds the destination name
C9_Witness ==
    /\ Cardinality(DOMAIN tables) = 3
    /\ \A w \in Writers :
         /\ Resolve(proc[w].temp) \in DOMAIN tables
         /\ Len(tables[Resolve(proc[w].temp)].rows) = Len(CatalogTuples(w))
         /\ Len(CatalogTuples(w)) > 0

\* the ingestible fields of the catalog of w have names that are equal
\* after canonicalization and lower-casing
CanonicalClash(w) ==
    LET schema == proc[w].job.cat.schema
        items == _schema_items(schema, 1)
    IN  \E i, j \in 1..Len(items) :
            /\ i # j
            /\ lower(canonicalize_field_name(schema[items[i]].name))
                 = lower(canonicalize_field_name(schema[items[j]].name))

(* C10 as stated: with two ingestible fields whose names are equal after  *)
(* canonicalization and lower-casing, no CREATE TABLE is issued (the      *)
(* write fails before).                                                   *)
C10_ClashFailsBeforeDdl ==
    \A w \in Writers :
        CanonicalClash(w) => Len(Sent(w, "CREATE TABLE")) = 0

----------------------------------------------------------------------------
\* the steps of _ingest and _egest that run inside `with closing(...)`
Scoped == {"maxlen", "create", "view", "ingest", "rename", "drop", "select"}

\* w has left its call: it returned or an exception left it
Exited(w) == proc[w].pc \in {"done", "raised"}

\* w got as far as opening the connection of _ingest or _egest
Opened(w) ==
    \/ Len(log[w]) > 0 /\ log[w][Len(log[w])].kind \in
          {"SELECT", "CREATE TABLE", "CREATE VIEW", "INSERT", "COMMIT",
           "RENAME", "DROP", "SELECT *"}
    \/ proc[w].exc \in {"RuntimeError: clash", TooLarge}

(* C11: the connection opened by an ingestion or a retrieval is open only *)
(* while the call is inside its `with` block, and is closed when the call *)
(* has been left, whether it returned (with or without the warning of the *)
(* stranded rename) or raised (name clash, oversized row, illegal SQL,    *)
(* an error of the server or the driver).                                 *)
C11_ConnectionClosedOnExit ==
    \A w \in Writers :
        /\ proc[w].conn = "open" => proc[w].pc \in Scoped
        /\ Exited(w) => proc[w].conn # "open"
        /\ (Exited(w) /\ Opened(w)) => proc[w].conn = "closed"

\* one ingestion ended with the warning, the other returned normally, and
\* both connections are closed
C11_Witness ==
    \E w, u \in Writers :
        /\ proc[w].pc = "done" /\ proc[w].warned /\ proc[w].conn = "closed"
        /\ proc[u].pc = "done" /\ ~proc[u].warned /\ proc[u].conn = "closed"
        /\ Count(u, "RENAME", "") = 1

----------------------------------------------------------------------------
\* the positions of the fields of a schema whose type has a formatter
RECURSIVE Supported(_, _)
Supported(schema, k) ==
    IF k > Len(schema) THEN <<>>
    ELSE IF schema[k].type \in FormatterKeys
         THEN <<k>> \o Supported(schema, k + 1)
    ELSE Supported(schema, k + 1)

\* the column names the catalog of w is to have: those of the supported
\* fields, in schema order
ExpectedColumns(w) ==
    LET schema == proc[w].job.cat.schema
        items == Supported(schema, 1)
    IN  [k \in 1..Len(items) |-> canonicalize_field_name(schema[items[k]].name)]

\* the tuple a row of w is to have: the values of the supported fields
ExpectedTuple(w, row) ==
    LET schema == proc[w].job.cat.schema
        items == Supported(schema, 1)
    IN  <<"(">>
        \o join(<<",">>, [k \in 1..Len(items) |-> str(row[items[k]].v)])
        \o <<")">>

\* the column list of an INSERT/REPLACE statement: the text between the
\* first " (" and ") VALUES "
InsertColumns(sql) ==
    LET open == CHOOSE k \in 1..Len(sql) :
                    /\ sql[k] = "("
                    /\ \A j \in 1..(k - 1) : sql[j] # "("
        close == ValuesStart(sql) - 10
    IN  split(SubSeq(sql, open + 1, close), ",")

HasUnsupported(w) ==
    \E k \in 1..Len(proc[w].job.cat.schema) :
        proc[w].job.cat.schema[k].type \notin FormatterKeys

----------------------------------------------------------------------------
\* the statements whose text is built by interpolating a name of the caller
Interpolated == {"CREATE DATABASE", "RENAME", "DROP", "SELECT *",
                 "CREATE TABLE AS SELECT", "CREATE VIEW"}

\* the statements of the formatter call (_ingest or _egest) or of copyFile
OfTheCall == Interpolated \cup {"SELECT", "CREATE TABLE", "INSERT", "COMMIT"}

\* a name the caller of w gave for a table contains the separator
SeparatorInTableName(w) ==
    \/ contains(proc[w].job.table_name, ";")
    \/ contains(proc[w].job.view_name, ";")
    \/ proc[w].op = "copyFile" /\ \/ contains(proc[w].args.toLocation, ";")
                                  \/ contains(proc[w].args.locationList[1], ";")

(* C13 as stated: no statement built by interpolating a name of the       *)
(* caller is sent with a ';' in that name, and a call that was given a    *)
(* table name with ';' sends no statement at all.                         *)
C13_SeparatorRejectedBeforeAnyStatement ==
    \A w \in Writers :
        \A j \in 1..Len(log[w]) :
            /\ log[w][j].kind \in Interpolated =>
                 ~contains(log[w][j].tbl, ";") /\ ~contains(log[w][j].arg, ";")
            /\ (log[w][j].kind \in OfTheCall \ {"CREATE DATABASE"}) =>
                 ~SeparatorInTableName(w)

----------------------------------------------------------------------------
\* w makes a storage object with create=True for a uri whose database name
\* contains the separator
CreatesWithSeparator(w) ==
    /\ proc[w].args.create
    /\ contains(proc[w].args.uri.path, ";")

(* C14: MySqlStorage(uri, create=True) with a ';' in the database name of *)
(* the uri raises RuntimeError: the constructor never gets past _createDb,*)
(* no CREATE DATABASE statement is sent for the name (nor any other       *)
(* statement), and the server has no database of that name.               *)
C14_IllegalDatabaseNameRaises ==
    /\ \A w \in Writers :
         CreatesWithSeparator(w) =>
            /\ proc[w].pc \in {"init", "createDb", "raised"}
            /\ proc[w].pc = "raised" =>
                 proc[w].exc \in {"RuntimeError: Illegal SQL.",
                                  "RuntimeError: Could not interpret"}
            /\ Len(log[w]) = 0
    /\ \A w \in Writers :
         \A j \in 1..Len(log[w]) :
             log[w][j].kind = "CREATE DATABASE" => ~contains(log[w][j].tbl, ";")
    /\ \A name \in databases : ~contains(name, ";")

\* the constructor has raised RuntimeError("Illegal SQL.") for the database
\* name `r;` of a well-formed uri, and nothing was sent
C14_Witness ==
    \E w \in Writers :
        /\ CreatesWithSeparator(w)
        /\ proc[w].self.repoDbName = <<"r", ";">>
        /\ proc[w].pc = "raised"
        /\ proc[w].exc = "RuntimeError: Illegal SQL."
        /\ Len(log[w]) = 0

----------------------------------------------------------------------------
\* the write of w found a table under the name of its location
FoundLocationTaken(w) == Count(w, "RENAME", MYSQL_ER_TABLE_EXISTS_ERROR) > 0

(* C15 as stated: a write through the storage layer to a location that    *)
(* holds a catalog written earlier does not return normally (it raises    *)
(* RuntimeError), and the earlier catalog is not removed.                 *)
C15_WriteToOccupiedRaises ==
    \A w \in Writers :
        (proc[w].op = "write" /\ FoundLocationTaken(w)) =>
            /\ proc[w].pc # "done"
            /\ Len(Sent(w, "DROP")) = 0

----------------------------------------------------------------------------
\* the calls that named the type t, in call order
CallsFor(t) == SelectSeq(calls, LAMBDA c : c.formattable = t)

(* C16: a call of registerFormatter raises RuntimeError exactly when its  *)
(* type was named by an earlier call, and after any sequence of calls the *)
(* registry holds, for each type that was named, the formatter of the     *)
(* first call that named it (so a call that raises changes nothing) and   *)
(* nothing for the other types.                                           *)
C16_FirstRegistrationWins ==
    /\ \A k \in 1..Len(calls) :
         calls[k].raised <=>
            \E j \in 1..(k - 1) : calls[j].formattable = calls[k].formattable
    /\ DOMAIN formatters = {calls[k].formattable : k \in 1..Len(calls)}
    /\ \A t \in DOMAIN formatters : formatters[t] = CallsFor(t)[1].formatter

\* BaseCatalog was registered, a second registration with another formatter
\* raised, and the registry still holds the first formatter
C16_Witness ==
    /\ Len(CallsFor("BaseCatalog")) >= 2
    /\ CallsFor("BaseCatalog")[1].formatter = "AfwTableSqlFormatter"
    /\ CallsFor("BaseCatalog")[2].formatter = "ButlerRepoCfgFmt"
    /\ CallsFor("BaseCatalog")[2].raised
    /\ formatters["BaseCatalog"] = "AfwTableSqlFormatter"

----------------------------------------------------------------------------
NoFormatter == "RuntimeError: No formatter registered"

\* w calls read or write of the storage layer for a type that has no
\* registered formatter
Unregistered(w) ==
    /\ proc[w].op \in {"write", "read"}
    /\ proc[w].args.pythonType \notin DOMAIN formatters

(* C17: MySqlStorage.read and MySqlStorage.write for a pythonType without *)
(* a registered formatter raise RuntimeError: the call never returns      *)
(* normally, no formatter is made or entered (no connection of a          *)
(* formatter is opened) and no statement is sent beyond those of the      *)
(* storage object's constructor.                                          *)
C17_NoFormatterRaises ==
    \A w \in Writers :
        Unregistered(w) =>
            /\ proc[w].pc \in {"init", "createDb", "repoDbExists", "ready", "raised"}
            /\ proc[w].locals.formatter = None
            /\ proc[w].conn = "none"
            /\ \A j \in 1..Len(log[w]) :
                 log[w][j].kind \in {"CREATE DATABASE", "SELECT SCHEMA_NAME"}
            /\ (proc[w].pc = "raised" /\ proc[w].exc # NoFormatter) =>
                 \/ proc[w].exc \in FaultKinds \cup {"NoRepositoryAtRoot",
                                                     "RuntimeError: Illegal SQL.",
                                                     "RuntimeError: Could not interpret"}

\* storage.write for TestClass on an existing repository raised
\* RuntimeError after the constructor's one statement
C17_Witness ==
    \E w \in Writers :
        /\ proc[w].op = "write"
        /\ proc[w].args.pythonType = "TestClass"
        /\ proc[w].self.repoDbName = RepoDb
        /\ proc[w].pc = "raised"
        /\ proc[w].exc = NoFormatter
        /\ Len(log[w]) = 1

----------------------------------------------------------------------------
\* w has returned from aliases_for(name, mappings)
Resolved(w, name, mappings) ==
    /\ proc[w].op = "aliases_for"
    /\ proc[w].pc = "done"
    /\ proc[w].args.name = name
    /\ proc[w].args.mappings = mappings

old_y == old_ \o <<"y">>

(* C18 as stated: with the rules [("old_", "new_"), ("old_x", "new_y")],  *)
(* "old_x" is not in the alias set of "new_y" and is in that of "new_x".  *)
C18_OldXOnlyForNewX ==
    \A w \in Writers :
        /\ Resolved(w, new_y, TwoRules) => old_x \notin proc[w].result
        /\ Resolved(w, new_x, TwoRules) => old_x \in proc[w].result

(* C18 amended: with the rules [("old_", "new_"), ("old_x", "new_y")],    *)
(* the alias set of "new_y" is {"old_x", "old_y"}, and "old_x" is         *)
(* excluded from the alias set of "new_x", which is empty: the longer     *)
(* rule takes "old_x" away from "new_x".                                  *)
C18_OldXForNewY ==
    \A w \in Writers :
        /\ Resolved(w, new_y, TwoRules) => proc[w].result = {old_x, old_y}
        /\ Resolved(w, new_x, TwoRules) =>
             old_x \notin proc[w].result /\ proc[w].result = {}

\* aliases_for("new_y", ...) has returned a set that holds "old_x"
C18_Witness ==
    \E w \in Writers :
        Resolved(w, new_y, TwoRules) /\ old_x \in proc[w].result

----------------------------------------------------------------------------
\* the rules whose source is a prefix of the string s
Matching(s, mappings) ==
    {i \in 1..Len(mappings) : startswith(s, mappings[i][1])}

\* the forward step: the longest source that is a prefix of s is replaced
\* by its target
Forward(s, mappings) ==
    LET i == CHOOSE i \in Matching(s, mappings) :
                 \A j \in Matching(s, mappings) :
                     Len(mappings[j][1]) <= Len(mappings[i][1])
    IN  mappings[i][2] \o SubSeq(s, Len(mappings[i][1]) + 1, Len(s))

\* k forward steps lead from s to name
RECURSIVE Reaches(_, _, _, _)
Reaches(s, name, mappings, k) ==
    IF k = 0 THEN s = name
    ELSE /\ Matching(s, mappings) # {}
         /\ Reaches(Forward(s, mappings), name, mappings, k - 1)

Renamed(s, name, mappings) ==
    \E k \in 1..Len(mappings) : Reaches(s, name, mappings, k)

\* the strings tried as aliases: every string over the scenario's letters
\* that is short enough to lead to a name, and those of the examples
AliasUniverse ==
    SeqsOf({"a", "b"}, 0, 2 + MaxRules)
      \cup {old_, new_, old_x, old_y, new_x, new_y, old_ \o <<"_">>}

(* C19: aliases_for(name, rules), for rules sorted by source with         *)
(* distinct sources, returns exactly the strings that 1 to len(rules)     *)
(* forward steps (the longest source that is a prefix is replaced by its  *)
(* target) lead to name; for [("old_", "new_")] and "new_x" that is       *)
(* {"old_x"}, and for no rules the empty set.                             *)
C19_AliasesAreForwardPreimages ==
    \A w \in Writers :
        (proc[w].op = "aliases_for" /\ proc[w].pc = "done") =>
            LET name == proc[w].args.name
                mappings == proc[w].args.mappings
            IN  /\ \A s \in proc[w].result : Renamed(s, name, mappings)
                /\ \A s \in AliasUniverse :
                     Renamed(s, name, mappings) => s \in proc[w].result
                /\ (name = new_x /\ mappings = OneRule) => proc[w].result = {old_x}
                /\ mappings = <<>> => proc[w].result = {}

\* a chain of two reverse steps: with the rules a -> b and b -> ab, the
\* name "ab" has the aliases "b" (one step) and "a" (two steps)
C19_Witness ==
    \E w \in Writers :
        /\ Resolved(w, <<"a", "b">>,
                    <<Mapping(<<"a">>, <<"b">>), Mapping(<<"b">>, <<"a", "b">>)>>)
        /\ proc[w].result = {<<"b">>, <<"a">>}

----------------------------------------------------------------------------
(* C20: for every entry of the formatter table, format_value(None)        *)
(* returns "NULL": the entry's format_value_callable is not called and    *)
(* no exception is raised.                                                *)
C20_NoneIsNull ==
    \A w \in Writers :
        (proc[w].op = "format_value" /\ proc[w].args.value = NoValue) =>
            /\ proc[w].pc \in {"format_value", "done"}
            /\ proc[w].pc = "done" => proc[w].result = <<"N", "U", "L", "L">>

\* format_value(None) has returned "NULL" for an entry whose callable
\* raises on None (ArrayD) and for one whose callable returns "None" (U)
C20_Witness ==
    \E w \in Writers :
        /\ proc[w].op = "format_value"
        /\ proc[w].args.value = NoValue
        /\ proc[w].args.type \in {"ArrayD", "U"}
        /\ proc[w].pc = "done"
        /\ proc[w].result = <<"N", "U", "L", "L">>

----------------------------------------------------------------------------
\* w has returned from field_formatters[type].format_value(value)
Formatted(w, type, value) ==
    /\ proc[w].op = "format_value"
    /\ proc[w].pc = "done"
    /\ proc[w].args.type = type
    /\ proc[w].args.value = value

\* the text is a numeric literal: digits after an optional sign
IsNumericLiteral(text) ==
    LET digits == IF Len(text) > 0 /\ text[1] = "-" THEN Tail(text) ELSE text
    IN  /\ Len(digits) > 0
        /\ \A k \in 1..Len(digits) : \E d \in 1..10 : digits[k] = Digits[d]

(* C21 as stated: the float, double and angle formatters render NaN and   *)
(* the infinities as "NULL" and every finite value as a numeric literal.  *)
C21_FiniteIsNumeric ==
    \A w \in Writers, f \in FloatValues :
        /\ \A type \in {"F", "D"} :
             Formatted(w, type, f) =>
                IF f.kind = "float" THEN IsNumericLiteral(proc[w].result)
                ELSE proc[w].result = <<"N", "U", "L", "L">>
        /\ Formatted(w, "Angle", AngleValue(f)) =>
                IF f.kind = "float" THEN IsNumericLiteral(proc[w].result)
                ELSE proc[w].result = <<"N", "U", "L", "L">>

(* C21 amended: the float and double formatters render NaN and the        *)
(* infinities as "NULL" and every finite value as a numeric literal; the  *)
(* angle formatter renders an angle as "NULL" when its value in degrees   *)
(* is NaN or infinite, which it is for a finite angle whose degrees       *)
(* exceed the largest double, and as a numeric literal otherwise.         *)
C21_FiniteDegreesIsNumeric ==
    \A w \in Writers, f \in FloatValues :
        /\ \A type \in {"F", "D"} :
             Formatted(w, type, f) =>
                IF f.kind = "float" THEN IsNumericLiteral(proc[w].result)
                ELSE proc[w].result = <<"N", "U", "L", "L">>
        /\ Formatted(w, "Angle", AngleValue(f)) =>
                IF f.kind = "float" /\ f.v * DegreesPerRadian \in (-DBL_MAX)..DBL_MAX
                THEN IsNumericLiteral(proc[w].result)
                ELSE proc[w].result = <<"N", "U", "L", "L">>

\* the angle formatter has rendered a finite angle of infinite degrees
\* as "NULL"
C21_Witness ==
    \E w \in Writers :
        /\ Formatted(w, "Angle", AngleValue(FloatValue(DBL_MAX)))
        /\ proc[w].result = <<"N", "U", "L", "L">>

----------------------------------------------------------------------------
(* C24: _getFormatter(T) is the formatter registered for T or else for    *)
(* the first base class of T that has one: read and write raise "No       *)
(* formatter registered" only for a type none of whose classes, in        *)
(* resolution order, is registered.                                       *)
C24_BaseClassFormatterFound ==
    \A w \in Writers :
        (proc[w].op \in {"write", "read"}
           /\ proc[w].pc = "raised" /\ proc[w].exc = NoFormatter) =>
            \A k \in 1..Len(mro(proc[w].args.pythonType)) :
                mro(proc[w].args.pythonType)[k] \notin DOMAIN formatters

----------------------------------------------------------------------------
\* w has called putRepositoryCfg and the call is over
PutOver(w) ==
    proc[w].op = "putRepositoryCfg" => proc[w].pc \in {"done", "raised"}

(* C22: after any sequence of RepositoryCfg writes, failed ones included, *)
(* the repositoryCfg table holds exactly one row, and its id is 0.        *)
C22_ExactlyOneRowAtIdZero ==
    (RepositoryCfgTable \in DOMAIN tables /\ \A w \in Writers : PutOver(w)) =>
        /\ Len(tables[RepositoryCfgTable].rows) = 1
        /\ tables[RepositoryCfgTable].rows[1].id = 0

----------------------------------------------------------------------------
\* the rows w has inserted
Inserted(w) ==
    {log[w][j].arg[1] : j \in {k \in 1..Len(log[w]) :
                                 log[w][k].kind = "INSERT" /\ log[w][k].err = ""}}

(* C23: when putRepositoryCfg is called with loc equal to cfg.root, or    *)
(* without loc, the RepositoryCfg that is written has an empty root.      *)
C23_RootNotWrittenAtRoot ==
    \A w \in Writers :
        (proc[w].op = "putRepositoryCfg"
           /\ proc[w].args.loc \in {None, <<proc[w].args.cfg.root>>}) =>
            \A row \in Inserted(w) : loads(row.root) = EmptyString

----------------------------------------------------------------------------
\* w has written its RepositoryCfg: the row is committed
Written(w) ==
    /\ proc[w].op = "putRepositoryCfg"
    /\ \E j \in 1..Len(log[w]) : log[w][j].kind = "COMMIT" /\ log[w][j].err = ""

(* C30: a RepositoryCfg read with ButlerRepoCfgFmt.read after it was      *)
(* written with ButlerRepoCfgFmt.write has the root, mapper, mapperArgs,  *)
(* parents and policy that were written.                                  *)
C30_CfgRoundTrip ==
    \A w, v \in Writers :
        (proc[w].op = "getRepositoryCfg" /\ proc[w].pc = "done"
           /\ proc[w].result # None /\ Written(v)) =>
            /\ proc[w].result[1].root = proc[v].args.cfg.root
            /\ proc[w].result[1].mapper = proc[v].args.cfg.mapper
            /\ proc[w].result[1].mapperArgs = proc[v].args.cfg.mapperArgs
            /\ proc[w].result[1].parents = proc[v].args.cfg.parents
            /\ proc[w].result[1].policy = proc[v].args.cfg.policy

----------------------------------------------------------------------------
\* the table n holds rows that w inserted
HoldsRowsOf(n, w) ==
    \E i \in 1..Len(tables[n].rows) : tables[n].rows[i].src = w

(* C25: a RENAME TABLE is attempted only after the commit, which follows  *)
(* the INSERT/REPLACE of every row of the catalog; so a table that holds  *)
(* rows of an ingestion under another name than its staging name holds    *)
(* the whole catalog, committed, and is not inserted into any more.       *)
C25_PublishedTableIsComplete ==
    \A w \in Writers :
        /\ \A j \in 1..Len(log[w]) :
             log[w][j].kind = "RENAME" =>
                 \E c \in 1..(j - 1) :
                     /\ log[w][c].kind = "COMMIT" /\ log[w][c].err = ""
                     /\ \A k \in (c + 1)..Len(log[w]) : log[w][k].kind # "INSERT"
                     /\ Flatten([k \in 1..(c - 1) |->
                                   IF log[w][k].kind = "INSERT"
                                   THEN StatementTuples(log[w][k].sql)
                                   ELSE <<>>]) = CatalogTuples(w)
        /\ \A n \in DOMAIN tables :
             (HoldsRowsOf(n, w) /\ n # Resolve(proc[w].temp)) =>
                 /\ Committed(w)
                 /\ proc[w].pc \in {"done", "raised"}
                 /\ [i \in 1..Len(tables[n].rows) |-> tables[n].rows[i].text]
                      = CatalogTuples(w)

\* a writer has published its two rows under the destination name while
\* the other is still populating its staging table
C25_Witness ==
    \E w, v \in Writers :
        /\ Dest \in DOMAIN tables
        /\ HoldsRowsOf(Dest, w)
        /\ Len(tables[Dest].rows) = 2
        /\ proc[v].pc = "ingest"
        /\ proc[v].pos = 0

----------------------------------------------------------------------------
(* C26: _do_ingest issues at most one commit; a commit follows the last   *)
(* INSERT/REPLACE, when every statement has succeeded and all rows are    *)
(* in (also for no row and no statement); an ingestion that is past       *)
(* _do_ingest has issued exactly one; when a statement has failed or the  *)
(* single-row error is raised none is issued.                             *)
C26_OneCommitAfterLastStatement ==
    \A w \in Writers :
        /\ Len(Sent(w, "COMMIT")) <= 1
        /\ \A j \in 1..Len(log[w]) :
             log[w][j].kind = "COMMIT" =>
                 /\ \A k \in 1..Len(log[w]) :
                      log[w][k].kind = "INSERT" => k < j /\ log[w][k].err = ""
                 /\ InsertedTuples(w) = CatalogTuples(w)
        /\ (proc[w].op = "_ingest" /\ proc[w].pc \in {"rename", "drop", "done"}) =>
             Count(w, "COMMIT", "") = 1
        /\ (\/ proc[w].exc = TooLarge
            \/ \E k \in 1..Len(log[w]) :
                 log[w][k].kind = "INSERT" /\ log[w][k].err # "") =>
             Len(Sent(w, "COMMIT")) = 0

\* the one commit of an empty catalog, after no statement
C26_Witness ==
    \E w \in Writers :
        /\ Len(proc[w].job.cat.rows) = 0
        /\ Len(Sent(w, "INSERT")) = 0
        /\ Count(w, "COMMIT", "") = 1

----------------------------------------------------------------------------
(* C27: the batch engine terminates, because its loop always makes        *)
(* progress: every statement it executes holds at least one row, and      *)
(* every step it takes in its loop either advances the row position, by   *)
(* the rows of the statement executed and not beyond the catalog, or      *)
(* leaves the loop (by the commit, a failed statement or the single-row   *)
(* error). The rows left to insert decrease with every pass.              *)
C27_BatchEngineProgress ==
    /\ [](\A w \in Writers :
            \A j \in 1..Len(log[w]) :
                log[w][j].kind = "INSERT" => Len(StatementTuples(log[w][j].sql)) >= 1)
    /\ [][\A w \in Writers :
            (proc[w].pc = "ingest" /\ proc'[w] # proc[w]) =>
                \/ /\ proc'[w].pc = "ingest"
                   /\ proc'[w].pos > proc[w].pos
                   /\ proc'[w].pos <= Len(proc[w].job.cat.rows)
                   /\ Len(log'[w]) = Len(log[w]) + 1
                   /\ log'[w][Len(log'[w])].kind = "INSERT"
                   /\ Len(StatementTuples(log'[w][Len(log'[w])].sql))
                        = proc'[w].pos - proc[w].pos
                \/ /\ proc'[w].pc = "rename"
                   /\ proc[w].pos = Len(proc[w].job.cat.rows)
                \/ proc'[w].pc = "raised"]_vars

\* an engine has ended with its commit after three statements of one row
C27_Witness ==
    \E w \in Writers :
        /\ proc[w].pc = "rename"
        /\ Len(proc[w].job.cat.rows) = 3
        /\ Len(Sent(w, "INSERT")) = 3
        /\ Committed(w)

----------------------------------------------------------------------------
(* C28: in _rename_table every DROP TABLE that was executed is followed   *)
(* by another RENAME attempt of the same call; the call does not return   *)
(* right after the DROP.                                                  *)
C28_DropIsFollowedByRename ==
    \A w \in Writers :
        \A j \in 1..Len(log[w]) :
            (log[w][j].kind = "DROP" /\ log[w][j].err = "") =>
                \/ j < Len(log[w]) /\ log[w][j + 1].kind = "RENAME"
                \/ j = Len(log[w]) /\ proc[w].pc = "rename"

(* C29: in _rename_table a RENAME that fails with another error than      *)
(* "table already exists" is the last statement of the call, and its      *)
(* error leaves the call as an exception.                                 *)
C29_OtherRenameErrorsPropagate ==
    \A w \in Writers :
        \A j \in 1..Len(log[w]) :
            (log[w][j].kind = "RENAME"
               /\ log[w][j].err \notin {"", MYSQL_ER_TABLE_EXISTS_ERROR}) =>
                /\ j = Len(log[w])
                /\ proc[w].pc = "raised"
                /\ proc[w].exc = log[w][j].err

============================================================================
